---- MODULE Spec2Model ----
(***************************************************************************)
(* License-key issuance and reseller-management backend.                   *)
(*                                                                         *)
(* The document store is modelled as one function per collection, from     *)
(* document ids (never reused, like ObjectIds) to documents.  A request    *)
(* handler that the claims examine under overlap is cut at its awaits on   *)
(* the store: each store read or write is one step of the process running  *)
(* the request, and the handler's in-memory documents are kept in the      *)
(* process's locals.  Handlers never examined under overlap run as one     *)
(* step, taken whenever the request arrives, also between the steps of the *)
(* requests in progress.  Time is an integer clock advanced by Tick.       *)
(***************************************************************************)
EXTENDS Integers, FiniteSets, Sequences, TLC

VARIABLES users, apps, licenses, resellers, clients, payments,
          now, nextId, pc, loc, resp, build

vars == <<users, apps, licenses, resellers, clients, payments,
          now, nextId, pc, loc, resp, build>>

(***************************************************************************)
(* Bounds of the model.                                                    *)
(***************************************************************************)
NProcs == 2
MaxTime == 2
MaxClients == 2
MaxLicenses == 1
MaxKeys == 2
MaxUsers == 2
MaxApps == 3
MaxPayments == 2
MaxIssued == 3
MaxCount == 2
MaxResellers == 2
MaxLogins == 2
MaxRefunds == 2
MaxExpiry == 5

Procs == 1..NProcs
Times == 0..MaxTime
NoId == 0
NoKey == 0
NoTime == -1
Undefined == "undefined"

\* an optional field of a request body: absent, or given with a value
Absent == <<>>
Given(v) == <<v>>

(***************************************************************************)
(* Program constants.                                                      *)
(***************************************************************************)
FreeMaxApps == 2
FreeMaxResellers == 0
FreeMaxLicensesPerApp == 30
Unlimited == -1
CancelMaxResellers == 1
MinUsernameLen == 3
MaxBulkCount == 100
FreeResellerLicenseCap == 30

Statuses == {"ACTIVE", "REVOKED", "EXPIRED", "BANNED"}

(***************************************************************************)
(* Generic store helpers.                                                  *)
(***************************************************************************)
Ids(coll) == DOMAIN coll

Insert(coll, id, doc) == coll @@ (id :> doc)

Remove(coll, ids) == [i \in (DOMAIN coll) \ ids |-> coll[i]]

MinOf(S) == CHOOSE x \in S : \A y \in S : x <= y

\* findOne: the first matching document in natural (insertion) order, or NoId
FindOne(S) == IF S = {} THEN NoId ELSE MinOf(S)

Idle(p) == pc[p] = "idle"

\* no request is in progress
Quiet == \A p \in DOMAIN pc : pc[p] = "idle"

\* a response: the operation answered, the caller (NoId: a public route), the
\* status code and the message
Response(op, who, status, msg) == [op |-> op, who |-> who, status |-> status, msg |-> msg]

NoLoc == [op |-> "none"]

\* a handler that ends: the process is idle again and the response is recorded
Finish(p, r) ==
    /\ pc' = [pc EXCEPT ![p] = "idle"]
    /\ loc' = [loc EXCEPT ![p] = NoLoc]
    /\ resp' = r

Goto(p, label, l) ==
    /\ pc' = [pc EXCEPT ![p] = label]
    /\ loc' = [loc EXCEPT ![p] = l]
    /\ UNCHANGED resp

(***************************************************************************)
(* Models (documents and their methods).                                   *)
(***************************************************************************)
\* License.isExpired / Client.isExpired: new Date() > this.expiresAt
isExpired(doc) == now > doc.expiresAt

LicensesWithKey(k) == {i \in Ids(licenses) : licenses[i].key = k}

ClientsWithName(a, name) ==
    {c \in Ids(clients) : clients[c].app = a /\ clients[c].username = name}

\* userSchema defaults: the three limits follow the plan
NewUser(plan) ==
    [plan |-> plan,
     maxApps |-> IF plan = "premium" THEN Unlimited ELSE FreeMaxApps,
     maxResellers |-> IF plan = "premium" THEN Unlimited ELSE FreeMaxResellers,
     maxLicensesPerApp |-> IF plan = "premium" THEN Unlimited ELSE FreeMaxLicensesPerApp,
     apps |-> {}, paymentStatus |-> "unpaid"]

\* appSchema defaults; appId is the generated identifier
NewApp(owner, appId) ==
    [owner |-> owner, appId |-> appId, paused |-> FALSE,
     hwidLock |-> TRUE, allowCustomLicenseKey |-> FALSE]

\* licenseSchema defaults
NewLicense(a, key, creator, type, reseller, expiresAt) ==
    [app |-> a, key |-> key, createdByUser |-> creator, createdByType |-> type,
     reseller |-> reseller, used |-> FALSE, usedBy |-> NoId,
     status |-> "ACTIVE", expiresAt |-> expiresAt]

\* A hardware id is a string, modelled as the sequence of its characters.
\* null is the value of a hwid that was reset or never given.
NullHwid == <<"null">>
Space == " "

RECURSIVE TrimStart(_)
TrimStart(s) == IF s # <<>> /\ Head(s) = Space THEN TrimStart(Tail(s)) ELSE s

RECURSIVE TrimEnd(_)
TrimEnd(s) ==
    IF s # <<>> /\ s[Len(s)] = Space THEN TrimEnd(SubSeq(s, 1, Len(s) - 1)) ELSE s

\* the setter of clientSchema.hwid (trim: true), run on every assignment to
\* the path; null is stored as it is
Trim(h) == IF h = NullHwid THEN NullHwid ELSE TrimEnd(TrimStart(h))

\* the password the registrations of this model send
Password == "secret1"

\* a faulty variant of the document below: the license's expiry is not copied
NewClientNoExpiry(username, hwid, a, key, expiresAt) ==
    [username |-> username, password |-> Password, hwid |-> Trim(hwid), app |-> a,
     licenseKey |-> key, ban |-> FALSE, expiresAt |-> NoTime,
     lastLogin |-> NoTime, loginCount |-> 0]

\* the Client document built by Client.create in POST /clients/register
NewClient(username, hwid, a, key, expiresAt) ==
    [username |-> username, password |-> Password, hwid |-> Trim(hwid), app |-> a,
     licenseKey |-> key, ban |-> FALSE, expiresAt |-> expiresAt,
     lastLogin |-> NoTime, loginCount |-> 0]

(***************************************************************************)
(* POST /clients/register                                                  *)
(***************************************************************************)
\* validateClientRegistration: username 3..50 characters, everything non-empty
ValidClientRegistration(username, key, hwid) ==
    /\ Len(username) >= MinUsernameLen
    /\ key # NoKey
    /\ hwid # <<>>

\* a faulty variant of the checks below: the status of the license is not looked at
RegisterRejectionNoStatusCheck(lic, app, username) ==
    IF app.paused THEN "pausedApp"
    ELSE IF lic.used THEN "keyUsed"
    ELSE IF isExpired(lic) THEN "noActiveSubs"
    ELSE IF Len(username) < MinUsernameLen THEN "unTooShort"
    ELSE "ok"

\* the rejection of the handler's synchronous checks on the license it read,
\* in the order of the code, or "ok"
RegisterRejection(lic, app, username) ==
    IF app.paused THEN "pausedApp"
    ELSE IF lic.used THEN "keyUsed"
    ELSE IF lic.status # "ACTIVE" THEN "keyBanned"
    ELSE IF isExpired(lic) THEN "noActiveSubs"
    ELSE IF Len(username) < MinUsernameLen THEN "unTooShort"
    ELSE "ok"

\* License.findOne({ key }).populate('app') and the checks up to the next await
RegisterFindLicense(p, username, key, hwid) ==
    /\ Idle(p)
    /\ UNCHANGED <<users, apps, licenses, resellers, clients, payments, now, nextId, build>>
    /\ IF ~ValidClientRegistration(username, key, hwid)
       THEN Finish(p, Response("register", NoId, 400, "Validation failed"))
       ELSE LET lid == FindOne(LicensesWithKey(key)) IN
            IF lid = NoId
            THEN Finish(p, Response("register", NoId, 400, "Invalid license key"))
            ELSE IF licenses[lid].app \notin Ids(apps)
            THEN Finish(p, Response("register", NoId, 500, "error"))
            ELSE LET rej == RegisterRejection(licenses[lid], apps[licenses[lid].app], username) IN
                 IF rej # "ok"
                 THEN Finish(p, Response("register", NoId, 400, rej))
                 ELSE Goto(p, "reg_findClient",
                           [op |-> "register", username |-> username, key |-> key,
                            hwid |-> hwid, lid |-> lid, license |-> licenses[lid],
                            client |-> NoId])

\* Client.findOne({ app, username })
RegisterFindClient(p) ==
    /\ pc[p] = "reg_findClient"
    /\ UNCHANGED <<users, apps, licenses, resellers, clients, payments, now, nextId, build>>
    /\ IF ClientsWithName(loc[p].license.app, loc[p].username) # {}
       THEN Finish(p, Response("register", NoId, 400, "usernameTaken"))
       ELSE Goto(p, "reg_createClient", loc[p])

\* Client.create({...}); the unique index { app, username } rejects a duplicate
RegisterCreateClient(p, cap) ==
    /\ pc[p] = "reg_createClient"
    /\ nextId.client <= cap
    /\ UNCHANGED <<users, apps, licenses, resellers, payments, now, build>>
    /\ IF ClientsWithName(loc[p].license.app, loc[p].username) # {}
       THEN /\ Finish(p, Response("register", NoId, 500, "error"))
            /\ UNCHANGED <<clients, nextId>>
       ELSE /\ clients' = Insert(clients, nextId.client,
                                 NewClient(loc[p].username, loc[p].hwid, loc[p].license.app,
                                           loc[p].key, loc[p].license.expiresAt))
            /\ nextId' = [nextId EXCEPT !.client = @ + 1]
            /\ Goto(p, "reg_saveLicense", [loc[p] EXCEPT !.client = nextId.client])

\* a faulty variant of the update below: usedBy is not bound
MarkUsedBroken(lic, cid) == [lic EXCEPT !.used = TRUE]

\* the update license.save() sends for license.used = true; license.usedBy = client._id
MarkUsed(lic, cid) == [lic EXCEPT !.used = TRUE, !.usedBy = cid]

\* license.save() and the 201 response; save() of a document deleted meanwhile throws
RegisterSaveLicense(p) ==
    /\ pc[p] = "reg_saveLicense"
    /\ UNCHANGED <<users, apps, resellers, clients, payments, now, nextId, build>>
    /\ IF loc[p].lid \in Ids(licenses)
       THEN /\ licenses' = [licenses EXCEPT ![loc[p].lid] = MarkUsed(@, loc[p].client)]
            /\ Finish(p, Response("register", NoId, 201, "Registration successful"))
       ELSE /\ UNCHANGED licenses
            /\ Finish(p, Response("register", NoId, 500, "error"))

(***************************************************************************)
(* Reseller methods and the reseller lookup of the license routes.         *)
(***************************************************************************)
\* a faulty variant of the method below: active is not looked at
hasPermissionWhileInactive(r, action) == r.allowedActions[action]

\* resellerSchema.methods.hasPermission
hasPermission(r, action) == r.active /\ r.allowedActions[action]

\* resellerSchema.methods.canCreateLicense
ResellerCanCreateLicense(r) ==
    IF ~r.active THEN FALSE
    ELSE IF r.licenseLimit = Unlimited THEN TRUE
    ELSE r.usedLicenses < r.licenseLimit

\* Reseller.findOne({ user: userId, app: appId, active: true }).  The Reseller
\* schema has no path "user": a build whose Mongoose strips unknown paths from
\* filters (strictQuery) matches on app and active alone, any other build matches
\* nothing.
ResellersForUser(u, a) ==
    IF build.strictQuery
    THEN {r \in Ids(resellers) : resellers[r].app = a /\ resellers[r].active}
    ELSE {}

\* populate(): a reference to a document that no longer exists reads as null
Populated(coll, id) == IF id \in Ids(coll) THEN id ELSE NoId

(***************************************************************************)
(* POST /clients/login and the owner's routes on a client:                 *)
(* PATCH /clients/:id/toggle-ban, PATCH /clients/:id/reset-hwid.           *)
(***************************************************************************)
\* validateClientLogin: every field non-empty
ValidClientLogin(username, password, hwid) ==
    /\ username # ""
    /\ password # ""
    /\ hwid # <<>>

\* a faulty variant of the check below: the setting of the app is not looked at
HwidRejectedAlways(app, client, hwid) == client.hwid # hwid

\* the HWID check: the hwid of the body is compared as it was sent
HwidRejected(app, client, hwid) == app.hwidLock /\ client.hwid # hwid

\* a faulty variant of the checks below: the ban of the client is not looked at
LoginRejectionNoBanCheck(a, c, password, hwid) ==
    IF a \notin Ids(apps) THEN <<401, "Invalid application credentials">>
    ELSE IF apps[a].paused THEN <<400, "pausedApp">>
    ELSE IF c = NoId THEN <<401, "usernameNotFound">>
    ELSE IF clients[c].password # password THEN <<401, "passMismatch">>
    ELSE IF isExpired(clients[c]) THEN <<403, "noActiveSubs">>
    ELSE IF HwidRejected(apps[a], clients[c], hwid) THEN <<403, "hwidMismatch">>
    ELSE <<200, "loggedInMsg">>

\* the checks of the handler in their order: status code and message key;
\* a is the app the credentials match (NoId: none), c the client found
LoginRejection(a, c, password, hwid) ==
    IF a \notin Ids(apps) THEN <<401, "Invalid application credentials">>
    ELSE IF apps[a].paused THEN <<400, "pausedApp">>
    ELSE IF c = NoId THEN <<401, "usernameNotFound">>
    ELSE IF clients[c].password # password THEN <<401, "passMismatch">>
    ELSE IF clients[c].ban THEN <<403, "userBanned">>
    ELSE IF isExpired(clients[c]) THEN <<403, "noActiveSubs">>
    ELSE IF HwidRejected(apps[a], clients[c], hwid) THEN <<403, "hwidMismatch">>
    ELSE <<200, "loggedInMsg">>

\* the client after a login that passed: the hwid is adopted when the app
\* does not lock it, then updateLoginInfo
LoggedIn(app, client, hwid) ==
    [client EXCEPT !.hwid = IF ~app.hwidLock /\ @ # hwid THEN Trim(hwid) ELSE @,
                   !.lastLogin = now,
                   !.loginCount = @ + 1]

ClientLogin(a, username, password, hwid) ==
    LET c == FindOne(ClientsWithName(a, username))
        r == LoginRejection(a, c, password, hwid)
    IN  /\ c # NoId => clients[c].loginCount < MaxLogins
        /\ UNCHANGED <<users, apps, licenses, resellers, payments, now, nextId, build, pc, loc>>
        /\ IF ~ValidClientLogin(username, password, hwid)
           THEN /\ resp' = Response("login", NoId, 400, "Validation failed")
                /\ UNCHANGED clients
           ELSE IF r[1] # 200
           THEN /\ resp' = Response("login", c, r[1], r[2])
                /\ UNCHANGED clients
           ELSE /\ clients' = [clients EXCEPT ![c] = LoggedIn(apps[a], @, hwid)]
                /\ resp' = Response("login", c, 200, r[2])

ClientToggleBan(u, cid) ==
    /\ u \in Ids(users)
    /\ UNCHANGED <<users, apps, licenses, resellers, payments, now, nextId, build, pc, loc>>
    /\ IF cid \notin Ids(clients)
       THEN /\ resp' = Response("clientToggleBan", u, 404, "Client not found")
            /\ UNCHANGED clients
       ELSE IF clients[cid].app \notin Ids(apps)
       THEN /\ resp' = Response("clientToggleBan", u, 500, "error")
            /\ UNCHANGED clients
       ELSE IF apps[clients[cid].app].owner # u
       THEN /\ resp' = Response("clientToggleBan", u, 403, "no permission")
            /\ UNCHANGED clients
       ELSE /\ clients' = [clients EXCEPT ![cid].ban = ~@]
            /\ resp' = Response("clientToggleBan", u, 200, "toggled")

ClientResetHwid(u, cid) ==
    /\ u \in Ids(users)
    /\ UNCHANGED <<users, apps, licenses, resellers, payments, now, nextId, build, pc, loc>>
    /\ IF cid \notin Ids(clients)
       THEN /\ resp' = Response("clientResetHwid", u, 404, "Client not found")
            /\ UNCHANGED clients
       ELSE IF clients[cid].app \notin Ids(apps)
       THEN /\ resp' = Response("clientResetHwid", u, 500, "error")
            /\ UNCHANGED clients
       ELSE IF apps[clients[cid].app].owner # u
       THEN /\ resp' = Response("clientResetHwid", u, 403, "no permission")
            /\ UNCHANGED clients
       ELSE /\ clients' = [clients EXCEPT ![cid].hwid = Trim(NullHwid)]
            /\ resp' = Response("clientResetHwid", u, 200, "Client HWID reset successfully")

(***************************************************************************)
(* PATCH /clients/:id/extend.  The body's days is a JSON number; the route *)
(* has no validator, so it need not be whole.  A number of days is         *)
(* modelled by twice its value (3 stands for 1.5 days); time is counted in *)
(* days.                                                                   *)
(***************************************************************************)
Whole(n) == 2 * n

\* Date.prototype.setDate converts its argument with ToIntegerOrInfinity: the
\* fraction of a positive number is dropped
ToInteger(days) == days \div 2

\* clientSchema.methods.extendExpiry: setDate(getDate() + days)
extendExpiry(client, days) == [client EXCEPT !.expiresAt = @ + ToInteger(days)]

\* days: Absent or Given(a number of days)
ClientExtend(u, cid, days) ==
    /\ u \in Ids(users)
    /\ UNCHANGED <<users, apps, licenses, resellers, payments, now, nextId, build, pc, loc>>
    /\ IF days = Absent \/ days[1] = 0 \/ days[1] < Whole(1)
       THEN /\ resp' = Response("clientExtend", u, 400, "Days must be a positive number")
            /\ UNCHANGED clients
       ELSE IF cid \notin Ids(clients)
       THEN /\ resp' = Response("clientExtend", u, 404, "Client not found")
            /\ UNCHANGED clients
       ELSE IF clients[cid].app \notin Ids(apps)
       THEN /\ resp' = Response("clientExtend", u, 500, "error")
            /\ UNCHANGED clients
       ELSE IF apps[clients[cid].app].owner # u
       THEN /\ resp' = Response("clientExtend", u, 403, "no permission")
            /\ UNCHANGED clients
       ELSE /\ extendExpiry(clients[cid], days[1]).expiresAt <= MaxExpiry
            /\ clients' = [clients EXCEPT ![cid] = extendExpiry(@, days[1])]
            /\ resp' = Response("clientExtend", u, 200, "Client subscription extended")

(***************************************************************************)
(* POST /clients/create-direct                                             *)
(***************************************************************************)
\* hwid: hwid || null
HwidOrNull(hwid) == IF hwid = <<>> THEN NullHwid ELSE hwid

ClientCreateDirect(u, username, a, hwid, expiresAt, cap) ==
    /\ u \in Ids(users)
    /\ nextId.client <= cap
    /\ UNCHANGED <<users, apps, licenses, resellers, payments, now, build, pc, loc>>
    /\ IF username = "" \/ a = NoId \/ expiresAt = NoTime
       THEN /\ resp' = Response("createDirect", u, 400, "Username, password, appId, and expiresAt are required")
            /\ UNCHANGED <<clients, nextId>>
       ELSE IF a \notin Ids(apps) \/ apps[a].owner # u
       THEN /\ resp' = Response("createDirect", u, 404, "App not found or you are not the owner")
            /\ UNCHANGED <<clients, nextId>>
       ELSE IF apps[a].paused
       THEN /\ resp' = Response("createDirect", u, 400, "Cannot create users for paused applications")
            /\ UNCHANGED <<clients, nextId>>
       ELSE IF Len(username) < MinUsernameLen
       THEN /\ resp' = Response("createDirect", u, 400, "Username must be at least 3 characters long")
            /\ UNCHANGED <<clients, nextId>>
       ELSE IF ClientsWithName(a, username) # {}
       THEN /\ resp' = Response("createDirect", u, 400, "Username already exists for this application")
            /\ UNCHANGED <<clients, nextId>>
       ELSE IF expiresAt <= now
       THEN /\ resp' = Response("createDirect", u, 400, "Invalid expiration date. Must be a future date.")
            /\ UNCHANGED <<clients, nextId>>
       ELSE /\ clients' = Insert(clients, nextId.client,
                                 NewClient(username, HwidOrNull(hwid), a, NoKey, expiresAt))
            /\ nextId' = [nextId EXCEPT !.client = @ + 1]
            /\ resp' = Response("createDirect", u, 201, "End user created successfully")

(***************************************************************************)
(* POST /clients/login as overlapping requests see it: the app and the     *)
(* client are loaded and the password compared; after that await the       *)
(* handler tests the loaded documents, assigns hwid, lastLogin and         *)
(* loginCount on the loaded client and saves it.  save() writes the        *)
(* assigned values of the modified paths.                                  *)
(***************************************************************************)
\* the stored client after client.save() of updateLoginInfo: doc is the client
\* as it was loaded
SavedLogin(stored, doc, app, hwid) ==
    [stored EXCEPT !.hwid = IF ~app.hwidLock /\ doc.hwid # hwid THEN Trim(hwid) ELSE @,
                   !.lastLogin = now,
                   !.loginCount = doc.loginCount + 1]

\* validation, App.findOne, Client.findOne and comparePassword
LoginLoad(p, a, username, password, hwid) ==
    LET c == FindOne(ClientsWithName(a, username)) IN
    /\ Idle(p)
    /\ c # NoId => clients[c].loginCount < MaxLogins
    /\ UNCHANGED <<users, apps, licenses, resellers, clients, payments, now, nextId, build>>
    /\ IF ~ValidClientLogin(username, password, hwid)
       THEN Finish(p, Response("login", NoId, 400, "Validation failed"))
       ELSE IF a \notin Ids(apps)
       THEN Finish(p, Response("login", c, 401, "Invalid application credentials"))
       ELSE IF apps[a].paused
       THEN Finish(p, Response("login", c, 400, "pausedApp"))
       ELSE IF c = NoId
       THEN Finish(p, Response("login", c, 401, "usernameNotFound"))
       ELSE IF clients[c].password # password
       THEN Finish(p, Response("login", c, 401, "passMismatch"))
       ELSE Goto(p, "login_save", [op |-> "login", client |-> c, doc |-> clients[c],
                                   app |-> apps[a], hwid |-> hwid])

\* the checks on the loaded client, then updateLoginInfo and the response
LoginSave(p) ==
    /\ pc[p] = "login_save"
    /\ UNCHANGED <<users, apps, licenses, resellers, payments, now, nextId, build>>
    /\ LET l == loc[p] IN
       IF l.doc.ban
       THEN /\ Finish(p, Response("login", l.client, 403, "userBanned"))
            /\ UNCHANGED clients
       ELSE IF isExpired(l.doc)
       THEN /\ Finish(p, Response("login", l.client, 403, "noActiveSubs"))
            /\ UNCHANGED clients
       ELSE IF HwidRejected(l.app, l.doc, l.hwid)
       THEN /\ Finish(p, Response("login", l.client, 403, "hwidMismatch"))
            /\ UNCHANGED clients
       ELSE IF l.client \notin Ids(clients)
       THEN /\ Finish(p, Response("login", l.client, 500, "error"))
            /\ UNCHANGED clients
       ELSE /\ clients' = [clients EXCEPT ![l.client] = SavedLogin(@, l.doc, l.app, l.hwid)]
            /\ Finish(p, Response("login", l.client, 200, "loggedInMsg"))

(***************************************************************************)
(* POST /clients/validate-session                                          *)
(***************************************************************************)
\* the appSecret generated with an app; a request sends it or another string
AppSecret(app) == <<"secret", app.appId>>
NoSecret == <<>>

\* App.findOne({ appId, appSecret })
AppsWithCredentials(appId, appSecret) ==
    {a \in Ids(apps) : apps[a].appId = appId /\ AppSecret(apps[a]) = appSecret}

\* a faulty variant of the checks below: the ban is not looked at
SessionRejectionNoBanCheck(username, appId, appSecret) ==
    LET a == FindOne(AppsWithCredentials(appId, appSecret))
        c == FindOne(ClientsWithName(a, username))
    IN  IF username = "" \/ appId = NoKey \/ appSecret = NoSecret
        THEN <<400, "Username, appId, and appSecret are required">>
        ELSE IF a = NoId THEN <<401, "Invalid application credentials">>
        ELSE IF apps[a].paused THEN <<400, "pausedApp">>
        ELSE IF c = NoId THEN <<404, "usernameNotFound">>
        ELSE IF isExpired(clients[c]) THEN <<403, "noActiveSubs">>
        ELSE <<200, "Session is valid">>

\* the checks of the handler in their order: status code and message
SessionRejection(username, appId, appSecret) ==
    LET a == FindOne(AppsWithCredentials(appId, appSecret))
        c == FindOne(ClientsWithName(a, username))
    IN  IF username = "" \/ appId = NoKey \/ appSecret = NoSecret
        THEN <<400, "Username, appId, and appSecret are required">>
        ELSE IF a = NoId THEN <<401, "Invalid application credentials">>
        ELSE IF apps[a].paused THEN <<400, "pausedApp">>
        ELSE IF c = NoId THEN <<404, "usernameNotFound">>
        ELSE IF clients[c].ban THEN <<403, "userBanned">>
        ELSE IF isExpired(clients[c]) THEN <<403, "noActiveSubs">>
        ELSE <<200, "Session is valid">>

ValidateSession(username, appId, appSecret) ==
    LET r == SessionRejection(username, appId, appSecret) IN
    /\ resp' = Response("validateSession", NoId, r[1], r[2])
    /\ UNCHANGED <<users, apps, licenses, resellers, clients, payments, now, nextId,
                   build, pc, loc>>

(***************************************************************************)
(* DELETE /clients/:id                                                     *)
(***************************************************************************)
\* license.used = false; license.usedBy = undefined
FreeLicense(lic) == [lic EXCEPT !.used = FALSE, !.usedBy = NoId]

ClientDelete(u, cid) ==
    /\ u \in Ids(users)
    /\ UNCHANGED <<users, apps, resellers, payments, now, nextId, build>>
    /\ UNCHANGED <<pc, loc>>
    /\ IF cid \notin Ids(clients)
       THEN /\ resp' = Response("clientDelete", u, 404, "Client not found")
            /\ UNCHANGED <<clients, licenses>>
       ELSE IF clients[cid].app \notin Ids(apps)
       THEN /\ resp' = Response("clientDelete", u, 500, "error")
            /\ UNCHANGED <<clients, licenses>>
       ELSE IF apps[clients[cid].app].owner # u
       THEN /\ resp' = Response("clientDelete", u, 403, "no permission")
            /\ UNCHANGED <<clients, licenses>>
       ELSE LET lid == FindOne(LicensesWithKey(clients[cid].licenseKey)) IN
            /\ licenses' = IF lid = NoId THEN licenses
                           ELSE [licenses EXCEPT ![lid] = FreeLicense(@)]
            /\ clients' = Remove(clients, {cid})
            /\ resp' = Response("clientDelete", u, 200, "Client deleted")

(***************************************************************************)
(* PUT /licenses/:id, PATCH /licenses/:id/toggle-ban, DELETE /licenses/:id *)
(***************************************************************************)
\* the fields PUT /licenses/:id assigns; Undefined leaves a field alone
UpdatedLicense(lic, status, expiresAt) ==
    [lic EXCEPT !.status = IF status # Undefined THEN status ELSE @,
                !.expiresAt = IF expiresAt # NoTime THEN expiresAt ELSE @]

LicenseUpdate(u, lid, status, expiresAt) ==
    /\ u \in Ids(users)
    /\ UNCHANGED <<users, apps, resellers, clients, payments, now, nextId, build>>
    /\ UNCHANGED <<pc, loc>>
    /\ IF lid \notin Ids(licenses)
       THEN /\ resp' = Response("licenseUpdate", u, 404, "License not found")
            /\ UNCHANGED licenses
       ELSE IF licenses[lid].app \notin Ids(apps)
       THEN /\ resp' = Response("licenseUpdate", u, 500, "error")
            /\ UNCHANGED licenses
       ELSE LET isOwner == apps[licenses[lid].app].owner = u
                r == FindOne(ResellersForUser(u, licenses[lid].app))
            IN  IF ~isOwner /\ r = NoId
                THEN /\ resp' = Response("licenseUpdate", u, 403, "no permission")
                     /\ UNCHANGED licenses
                ELSE IF ~isOwner /\ status # Undefined /\ ~hasPermission(resellers[r], "banUnban")
                THEN /\ resp' = Response("licenseUpdate", u, 403, "no status permission")
                     /\ UNCHANGED licenses
                ELSE IF ~isOwner /\ expiresAt # NoTime /\ ~hasPermission(resellers[r], "editExpiry")
                THEN /\ resp' = Response("licenseUpdate", u, 403, "no expiry permission")
                     /\ UNCHANGED licenses
                ELSE /\ licenses' = [licenses EXCEPT ![lid] = UpdatedLicense(@, status, expiresAt)]
                     /\ resp' = Response("licenseUpdate", u, 200, "License updated")

\* a faulty variant of the method below: banning also releases the license
toggleBanReleasing(lic) ==
    IF lic.status = "BANNED" THEN [lic EXCEPT !.status = "ACTIVE"]
    ELSE IF lic.status = "ACTIVE"
    THEN [lic EXCEPT !.status = "BANNED", !.used = FALSE, !.usedBy = NoId]
    ELSE lic

\* a faulty variant of the method below: every other status becomes BANNED
toggleBanAnyStatus(lic) ==
    IF lic.status = "BANNED" THEN [lic EXCEPT !.status = "ACTIVE"]
    ELSE [lic EXCEPT !.status = "BANNED"]

\* licenseSchema.methods.toggleBan
toggleBan(lic) ==
    IF lic.status = "BANNED" THEN [lic EXCEPT !.status = "ACTIVE"]
    ELSE IF lic.status = "ACTIVE" THEN [lic EXCEPT !.status = "BANNED"]
    ELSE lic

LicenseToggleBan(u, lid) ==
    /\ u \in Ids(users)
    /\ UNCHANGED <<users, apps, resellers, clients, payments, now, nextId, build>>
    /\ UNCHANGED <<pc, loc>>
    /\ IF lid \notin Ids(licenses)
       THEN /\ resp' = Response("toggleBan", u, 404, "License not found")
            /\ UNCHANGED licenses
       ELSE IF licenses[lid].app \notin Ids(apps)
       THEN /\ resp' = Response("toggleBan", u, 500, "error")
            /\ UNCHANGED licenses
       ELSE LET isOwner == apps[licenses[lid].app].owner = u
                r == FindOne(ResellersForUser(u, licenses[lid].app))
            IN  IF ~isOwner /\ (r = NoId \/ ~hasPermission(resellers[r], "banUnban"))
                THEN /\ resp' = Response("toggleBan", u, 403, "no permission")
                     /\ UNCHANGED licenses
                ELSE /\ licenses' = [licenses EXCEPT ![lid] = toggleBan(@)]
                     /\ resp' = Response("toggleBan", u, 200, "toggled")

\* Reseller.findByIdAndUpdate(id, { $inc: { usedLicenses: -1 } })
DecUsedLicenses(r) ==
    IF r \in Ids(resellers)
    THEN [resellers EXCEPT ![r].usedLicenses = @ - 1]
    ELSE resellers

LicenseDelete(u, lid) ==
    /\ u \in Ids(users)
    /\ UNCHANGED <<users, apps, clients, payments, now, nextId, build>>
    /\ UNCHANGED <<pc, loc>>
    /\ IF lid \notin Ids(licenses)
       THEN /\ resp' = Response("licenseDelete", u, 404, "License not found")
            /\ UNCHANGED <<licenses, resellers>>
       ELSE IF licenses[lid].app \notin Ids(apps)
       THEN /\ resp' = Response("licenseDelete", u, 500, "error")
            /\ UNCHANGED <<licenses, resellers>>
       ELSE IF apps[licenses[lid].app].owner # u
       THEN /\ resp' = Response("licenseDelete", u, 403, "Only app owners can delete licenses")
            /\ UNCHANGED <<licenses, resellers>>
       ELSE /\ resellers' = DecUsedLicenses(Populated(resellers, licenses[lid].reseller))
            /\ licenses' = Remove(licenses, {lid})
            /\ resp' = Response("licenseDelete", u, 200, "License deleted")

(***************************************************************************)
(* DELETE /licenses: the caller's owner-created licenses, of one app or of *)
(* all the caller's apps.                                                  *)
(***************************************************************************)
\* the query of the deletion: a = NoId when the request names no app
BulkDeleteQuery(u, a) ==
    {l \in Ids(licenses) :
        /\ licenses[l].createdByType = "owner"
        /\ licenses[l].app \in Ids(apps)
        /\ apps[licenses[l].app].owner = u
        /\ a # NoId => licenses[l].app = a}

\* one $inc of -1 for every used license of the query that has a reseller
DecUsedLicensesOf(ls) ==
    [r \in DOMAIN resellers |->
        [resellers[r] EXCEPT !.usedLicenses =
            @ - Cardinality({l \in ls : licenses[l].used /\ licenses[l].reseller = r})]]

LicenseBulkDelete(u, a) ==
    /\ u \in Ids(users)
    /\ UNCHANGED <<users, apps, clients, payments, now, nextId, build, pc, loc>>
    /\ IF a # NoId /\ (a \notin Ids(apps) \/ apps[a].owner # u)
       THEN /\ resp' = Response("licenseBulkDelete", u, 404, "App not found or you are not the owner")
            /\ UNCHANGED <<licenses, resellers>>
       ELSE /\ resellers' = DecUsedLicensesOf(BulkDeleteQuery(u, a))
            /\ licenses' = Remove(licenses, BulkDeleteQuery(u, a))
            /\ resp' = Response("licenseBulkDelete", u, 200, "deleted")

(***************************************************************************)
(* The clock.                                                              *)
(***************************************************************************)
Tick ==
    /\ now < MaxTime
    /\ now' = now + 1
    /\ UNCHANGED <<users, apps, licenses, resellers, clients, payments, nextId, pc, loc, resp, build>>


(***************************************************************************)
(* POST /auth/register                                                     *)
(***************************************************************************)
UserRegister(cap) ==
    /\ nextId.user <= cap
    /\ users' = Insert(users, nextId.user, NewUser("free"))
    /\ nextId' = [nextId EXCEPT !.user = @ + 1]
    /\ resp' = Response("userRegister", nextId.user, 201, "User registered")
    /\ UNCHANGED <<apps, licenses, resellers, clients, payments, now, pc, loc, build>>

(***************************************************************************)
(* POST /payments/razorpay/verify and POST /payments/cancel-subscription   *)
(***************************************************************************)
\* the update of User.findByIdAndUpdate in the verify handler (no save hook runs)
Upgraded(user) ==
    [user EXCEPT !.plan = "premium", !.paymentStatus = "paid",
                 !.maxApps = Unlimited, !.maxResellers = Unlimited,
                 !.maxLicensesPerApp = Unlimited]

\* the update of User.findByIdAndUpdate in the cancel handler (no save hook runs)
Downgraded(user) ==
    [user EXCEPT !.plan = "free", !.paymentStatus = "unpaid",
                 !.maxApps = FreeMaxApps, !.maxResellers = CancelMaxResellers,
                 !.maxLicensesPerApp = FreeMaxLicensesPerApp]

\* the Payment document the verify handler saves
NewPayment(u, paymentId, gatewayStatus) ==
    [user |-> u, razorpayPaymentId |-> paymentId, status |-> gatewayStatus,
     isVerified |-> TRUE, refunds |-> <<>>,
     paymentDetails |-> [email |-> "payer", error_code |-> Undefined]]

PaymentsWithId(paymentId) ==
    {i \in Ids(payments) : payments[i].razorpayPaymentId = paymentId}

\* authenticateToken: User.findById(...).populate('apps'); the populated array
\* holds the App documents that still exist
PopulatedApps(u) == users[u].apps \cap Ids(apps)

\* mockOrder: the order id starts with 'order_mock_'; sigOK: the signature sent
\* equals the HMAC of order id and payment id; gateway: the status the gateway
\* reports for the payment, or "error" when the fetch throws; orderUser: the
\* userId in the order's notes.  The mock branch reads `order` above its
\* declaration in the same block and throws before it saves anything.
\* a faulty variant of the check below: the order's user is not looked at
OrderBelongsToAnyone(orderUser, u) == TRUE

\* order.notes.userId === req.user._id.toString()
OrderBelongsTo(orderUser, u) == orderUser = u

PaymentVerify(u, mockOrder, sigOK, gateway, orderUser, paymentId, cap) ==
    /\ u \in Ids(users)
    /\ UNCHANGED <<apps, licenses, resellers, clients, now, pc, loc, build>>
    /\ IF build.devMode \/ mockOrder
       THEN /\ resp' = Response("verify", u, 500, "Payment verification failed")
            /\ UNCHANGED <<users, payments, nextId>>
       ELSE IF ~sigOK
       THEN /\ resp' = Response("verify", u, 400, "Invalid payment signature")
            /\ UNCHANGED <<users, payments, nextId>>
       ELSE IF gateway = "error"
       THEN /\ resp' = Response("verify", u, 500, "Payment verification failed")
            /\ UNCHANGED <<users, payments, nextId>>
       ELSE IF gateway # "captured"
       THEN /\ resp' = Response("verify", u, 400, "Payment not completed")
            /\ UNCHANGED <<users, payments, nextId>>
       ELSE IF ~OrderBelongsTo(orderUser, u)
       THEN /\ resp' = Response("verify", u, 400, "user mismatch")
            /\ UNCHANGED <<users, payments, nextId>>
       ELSE IF PaymentsWithId(paymentId) # {}
       THEN /\ resp' = Response("verify", u, 500, "Payment verification failed")
            /\ UNCHANGED <<users, payments, nextId>>
       ELSE /\ nextId.payment <= cap
            /\ payments' = Insert(payments, nextId.payment, NewPayment(u, paymentId, gateway))
            /\ nextId' = [nextId EXCEPT !.payment = @ + 1]
            /\ users' = [users EXCEPT ![u] = Upgraded(@)]
            /\ resp' = Response("verify", u, 200, "Welcome to premium")

\* the checks of the cancel handler
CancelAllowed(u) ==
    users[u].plan # "free" /\ ~(Cardinality(PopulatedApps(u)) > FreeMaxApps)

CancelSubscription(u) ==
    /\ u \in Ids(users)
    /\ UNCHANGED <<apps, licenses, resellers, clients, payments, now, nextId, pc, loc, build>>
    /\ IF users[u].plan = "free"
       THEN /\ resp' = Response("cancel", u, 400, "already on the free plan")
            /\ UNCHANGED users
       ELSE IF ~CancelAllowed(u)
       THEN /\ resp' = Response("cancel", u, 400, "delete apps before downgrading")
            /\ UNCHANGED users
       ELSE /\ users' = [users EXCEPT ![u] = Downgraded(@)]
            /\ resp' = Response("cancel", u, 200, "downgraded to free plan")

(***************************************************************************)
(* POST /payments/webhook.  The request carries the bytes of a JSON body   *)
(* and the X-Razorpay-Signature header.  A body is modelled by its content *)
(* and its layout: the bytes sent are either the compact serialisation or  *)
(* the same JSON with other whitespace.                                    *)
(***************************************************************************)
WebhookEvents == {"payment.captured", "payment.failed", "refund.processed", "order.paid"}
Layouts == {"compact", "spaced"}
Secrets == {"configured", "other"}

\* the JSON text of a webhook: event, the payment the entity names, the refund id
WebhookBody(event, paymentId, refundId, layout) ==
    [event |-> event, paymentId |-> paymentId, refundId |-> refundId, layout |-> layout]

\* JSON.stringify(req.body): the parsed body serialised again, always compact
Stringify(body) == [body EXCEPT !.layout = "compact"]

\* crypto.createHmac('sha256', secret).update(text).digest('hex')
Hmac(secret, text) == <<secret, text>>

\* no X-Razorpay-Signature header
NoSignature == <<>>

\* a faulty variant of the check below: every signature is taken
SignatureAcceptedAlways(signature, body) == TRUE

\* webhookSignature === expectedSignature
SignatureAccepted(signature, body) == signature = Hmac("configured", Stringify(body))

\* handlePaymentCaptured
PaymentCaptured(pay) ==
    IF pay.status # "captured"
    THEN [pay EXCEPT !.status = "captured", !.paymentDetails.email = "gateway"]
    ELSE pay

\* handlePaymentFailed
PaymentFailed(pay) ==
    [pay EXCEPT !.status = "failed", !.paymentDetails.error_code = "BAD_REQUEST_ERROR"]

\* paymentSchema.methods.addRefund, called by handleRefundProcessed
addRefund(pay, refundId) == [pay EXCEPT !.refunds = Append(@, [refundId |-> refundId])]

\* the payments after the handler of the event has run
HandledEvent(body) ==
    LET i == FindOne(PaymentsWithId(body.paymentId)) IN
    IF i = NoId THEN payments
    ELSE IF body.event = "payment.captured" THEN [payments EXCEPT ![i] = PaymentCaptured(@)]
    ELSE IF body.event = "payment.failed" THEN [payments EXCEPT ![i] = PaymentFailed(@)]
    ELSE IF body.event = "refund.processed" THEN [payments EXCEPT ![i] = addRefund(@, body.refundId)]
    ELSE payments

Webhook(body, signature) ==
    /\ \A i \in Ids(payments) : Len(payments[i].refunds) < MaxRefunds
    /\ UNCHANGED <<users, apps, licenses, resellers, clients, now, nextId, build, pc, loc>>
    /\ IF ~build.webhookSecret
       THEN /\ resp' = Response("webhook", NoId, 200, "received")
            /\ UNCHANGED payments
       ELSE IF ~SignatureAccepted(signature, body)
       THEN /\ resp' = Response("webhook", NoId, 400, "Invalid signature")
            /\ UNCHANGED payments
       ELSE /\ payments' = HandledEvent(body)
            /\ resp' = Response("webhook", NoId, 200, "received")

(***************************************************************************)
(* POST /payments/:paymentId/refund.  gatewayOK: razorpay.payments.refund  *)
(* returns a refund (it throws otherwise); refundId is the id the gateway  *)
(* gives the refund.                                                       *)
(***************************************************************************)
PaymentRefund(u, pid, gatewayOK, refundId) ==
    /\ u \in Ids(users)
    /\ \A i \in Ids(payments) : Len(payments[i].refunds) < MaxRefunds
    /\ UNCHANGED <<users, apps, licenses, resellers, clients, now, nextId, build, pc, loc>>
    /\ IF pid \notin Ids(payments)
       THEN /\ resp' = Response("refund", u, 404, "Payment not found")
            /\ UNCHANGED payments
       ELSE IF payments[pid].status # "captured"
       THEN /\ resp' = Response("refund", u, 400, "Payment not eligible for refund")
            /\ UNCHANGED payments
       ELSE IF ~gatewayOK
       THEN /\ resp' = Response("refund", u, 500, "Failed to process refund")
            /\ UNCHANGED payments
       ELSE /\ payments' = [payments EXCEPT ![pid] = addRefund(@, refundId)]
            /\ resp' = Response("refund", u, 200, "Refund processed successfully")

(***************************************************************************)
(* POST /apps and DELETE /apps/:id                                         *)
(***************************************************************************)
\* a faulty variant of the method below: no quota
canCreateAppAlways(user, nApps) == TRUE

\* userSchema.methods.canCreateApp, on the user loaded by authenticateToken
canCreateApp(user, nApps) == user.maxApps = Unlimited \/ nApps < user.maxApps

\* authenticateToken and the quota check
AppCreateCheck(p, u) ==
    /\ Idle(p)
    /\ u \in Ids(users)
    /\ UNCHANGED <<users, apps, licenses, resellers, clients, payments, now, nextId, build>>
    /\ IF ~canCreateApp(users[u], Cardinality(PopulatedApps(u)))
       THEN Finish(p, Response("appCreate", u, 403, "maximum limit of apps"))
       ELSE Goto(p, "app_genId", [op |-> "appCreate", user |-> u, appId |-> NoKey, app |-> NoId])

\* the pre-save hook: draw an appId and query for it; drawn again while it exists
AppCreateGenId(p, appId) ==
    /\ pc[p] = "app_genId"
    /\ UNCHANGED <<users, apps, licenses, resellers, clients, payments, now, nextId, build>>
    /\ IF \E a \in Ids(apps) : apps[a].appId = appId
       THEN UNCHANGED <<pc, loc, resp>>
       ELSE Goto(p, "app_insert", [loc[p] EXCEPT !.appId = appId])

\* a faulty variant of the insert below: the quota is looked at again, under a
\* lock, when the app is inserted
AppCreateInsertLocked(p, cap) ==
    /\ pc[p] = "app_insert"
    /\ nextId.app <= cap
    /\ UNCHANGED <<users, licenses, resellers, clients, payments, now, build>>
    /\ IF \/ \E a \in Ids(apps) : apps[a].appId = loc[p].appId
          \/ ~canCreateApp(users[loc[p].user], Cardinality(PopulatedApps(loc[p].user)))
       THEN /\ Finish(p, Response("appCreate", loc[p].user, 403, "maximum limit of apps"))
            /\ UNCHANGED <<apps, nextId>>
       ELSE /\ apps' = Insert(apps, nextId.app, NewApp(loc[p].user, loc[p].appId))
            /\ nextId' = [nextId EXCEPT !.app = @ + 1]
            /\ Goto(p, "app_push", [loc[p] EXCEPT !.app = nextId.app])

\* the insert of App.create; the unique index on appId rejects a duplicate
AppCreateInsert(p, cap) ==
    /\ pc[p] = "app_insert"
    /\ nextId.app <= cap
    /\ UNCHANGED <<users, licenses, resellers, clients, payments, now, build>>
    /\ IF \E a \in Ids(apps) : apps[a].appId = loc[p].appId
       THEN /\ Finish(p, Response("appCreate", loc[p].user, 500, "error"))
            /\ UNCHANGED <<apps, nextId>>
       ELSE /\ apps' = Insert(apps, nextId.app, NewApp(loc[p].user, loc[p].appId))
            /\ nextId' = [nextId EXCEPT !.app = @ + 1]
            /\ Goto(p, "app_push", [loc[p] EXCEPT !.app = nextId.app])

\* User.findByIdAndUpdate(userId, { $push: { apps: app._id } }) and the response
AppCreatePush(p) ==
    /\ pc[p] = "app_push"
    /\ UNCHANGED <<apps, licenses, resellers, clients, payments, now, nextId, build>>
    /\ users' = IF loc[p].user \in Ids(users)
                THEN [users EXCEPT ![loc[p].user].apps = @ \cup {loc[p].app}]
                ELSE users
    /\ Finish(p, Response("appCreate", loc[p].user, 201, "App created"))

\* requireAppOwnership, then the cascade: licenses, the owner's apps array, the app
AppDelete(u, a) ==
    /\ u \in Ids(users)
    /\ UNCHANGED <<resellers, clients, payments, now, nextId, pc, loc, build>>
    /\ IF a \notin PopulatedApps(u)
       THEN /\ resp' = Response("appDelete", u, 403, "you do not own this app")
            /\ UNCHANGED <<users, apps, licenses>>
       ELSE /\ licenses' = Remove(licenses, {l \in Ids(licenses) : licenses[l].app = a})
            /\ users' = [users EXCEPT ![u].apps = @ \ {a}]
            /\ apps' = Remove(apps, {a})
            /\ resp' = Response("appDelete", u, 200, "App deleted")

(***************************************************************************)
(* License creation: POST /licenses, and the key generation and the unique *)
(* index that every License.create goes through.                           *)
(***************************************************************************)
\* a store without the unique index: every insert is taken
KeyIndexAbsent(k) == TRUE

\* the unique index on License.key: an insert of a key already stored is refused
KeyIndexAllows(k) == LicensesWithKey(k) = {}

\* a faulty variant of the method below: no quota
AppCanCreateLicenseAlways(a, u) == TRUE

\* appSchema.methods.canCreateLicense
AppCanCreateLicense(a, u) ==
    IF u \notin Ids(users) THEN FALSE
    ELSE IF users[u].maxLicensesPerApp = Unlimited THEN TRUE
    ELSE Cardinality({l \in Ids(licenses) : licenses[l].app = a}) < users[u].maxLicensesPerApp

\* a faulty variant of the checks below: the app's setting is not looked at
CustomKeyRejectionIgnoresSetting(app, key) ==
    IF key = NoKey THEN "ok"
    ELSE IF LicensesWithKey(key) # {} THEN "License key already exists"
    ELSE "ok"

\* the custom key checks of POST /licenses: the rejection message, or "ok"
CustomKeyRejection(app, key) ==
    IF key = NoKey THEN "ok"
    ELSE IF ~app.allowCustomLicenseKey THEN "Custom license keys are not allowed"
    ELSE IF LicensesWithKey(key) # {} THEN "License key already exists"
    ELSE "ok"

\* the handler up to License.create: authentication, validation, the app, the
\* caller's role, the quota checks and the custom key checks
LicenseCreateCheck(p, u, a, key, expiresAt) ==
    /\ Idle(p)
    /\ u \in Ids(users)
    /\ UNCHANGED <<users, apps, licenses, resellers, clients, payments, now, nextId, build>>
    /\ LET isOwner == apps[a].owner = u
           r == FindOne(ResellersForUser(u, a))
           l == [op |-> "licenseCreate", user |-> u, app |-> a, key |-> key,
                 asked |-> key, expiresAt |-> expiresAt,
                 type |-> IF isOwner THEN "owner" ELSE "reseller",
                 reseller |-> IF isOwner THEN NoId ELSE r,
                 used |-> IF isOwner \/ r = NoId THEN 0 ELSE resellers[r].usedLicenses]
       IN  IF expiresAt <= now
           THEN Finish(p, Response("licenseCreate", u, 400, "Expiration date must be in the future"))
           ELSE IF a \notin Ids(apps)
           THEN Finish(p, Response("licenseCreate", u, 404, "App not found"))
           ELSE IF ~isOwner /\ r = NoId
           THEN Finish(p, Response("licenseCreate", u, 403, "no permission for this app"))
           ELSE IF ~isOwner /\ ~hasPermission(resellers[r], "create")
           THEN Finish(p, Response("licenseCreate", u, 403, "no permission to create licenses"))
           ELSE IF ~isOwner /\ ~ResellerCanCreateLicense(resellers[r])
           THEN Finish(p, Response("licenseCreate", u, 403, "license creation limit reached"))
           ELSE IF isOwner /\ ~AppCanCreateLicense(a, u)
           THEN Finish(p, Response("licenseCreate", u, 403, "App has reached the maximum limit"))
           ELSE IF CustomKeyRejection(apps[a], key) # "ok"
           THEN Finish(p, Response("licenseCreate", u, 400, CustomKeyRejection(apps[a], key)))
           ELSE IF key # NoKey
           THEN Goto(p, "lic_insert", l)
           ELSE Goto(p, "lic_genKey", l)

\* licenseSchema.pre('save'): one round of the loop, drawing a key and looking it up
LicenseCreateGenKey(p, draw) ==
    /\ pc[p] = "lic_genKey"
    /\ UNCHANGED <<users, apps, licenses, resellers, clients, payments, now, nextId, build>>
    /\ IF LicensesWithKey(draw) # {}
       THEN UNCHANGED <<pc, loc, resp>>
       ELSE Goto(p, "lic_insert", [loc[p] EXCEPT !.key = draw])

\* License.create's insert
LicenseCreateInsert(p, cap) ==
    /\ pc[p] = "lic_insert"
    /\ nextId.license <= cap
    /\ UNCHANGED <<users, apps, resellers, clients, payments, now, build>>
    /\ LET l == loc[p] IN
       IF ~KeyIndexAllows(l.key)
       THEN /\ UNCHANGED <<licenses, nextId>>
            /\ Finish(p, Response("licenseCreate", l.user, 500, "error"))
       ELSE /\ licenses' = Insert(licenses, nextId.license,
                                  NewLicense(l.app, l.key, l.user, l.type, l.reseller, l.expiresAt))
            /\ nextId' = [nextId EXCEPT !.license = @ + 1]
            /\ IF l.reseller # NoId
               THEN Goto(p, "lic_incr", l)
               ELSE Finish(p, Response("licenseCreate", l.user, 201, "License created successfully"))

\* reseller.incrementUsedLicenses(): the loaded document's count plus one, saved
LicenseCreateIncrement(p) ==
    /\ pc[p] = "lic_incr"
    /\ UNCHANGED <<users, apps, licenses, clients, payments, now, nextId, build>>
    /\ LET l == loc[p] IN
       IF l.reseller \notin Ids(resellers)
       THEN /\ UNCHANGED resellers
            /\ Finish(p, Response("licenseCreate", l.user, 500, "error"))
       ELSE /\ resellers' = [resellers EXCEPT ![l.reseller].usedLicenses = l.used + 1]
            /\ Finish(p, Response("licenseCreate", l.user, 201, "License created successfully"))

\* PUT /apps/:id, the settings it assigns
\* paused, hwidLock and allowCustom are optional fields of the body
UpdatedApp(app, paused, hwidLock, allowCustom) ==
    [app EXCEPT !.paused = IF paused # Absent THEN paused[1] ELSE @,
                !.hwidLock = IF hwidLock # Absent THEN hwidLock[1] ELSE @,
                !.allowCustomLicenseKey = IF allowCustom # Absent THEN allowCustom[1] ELSE @]

AppUpdate(u, a, paused, hwidLock, allowCustom) ==
    /\ u \in Ids(users)
    /\ UNCHANGED <<users, licenses, resellers, clients, payments, now, nextId, build, pc, loc>>
    /\ IF a \notin PopulatedApps(u)
       THEN /\ UNCHANGED apps
            /\ resp' = Response("appUpdate", u, 403, "Access denied")
       ELSE /\ apps' = [apps EXCEPT ![a] = UpdatedApp(@, paused, hwidLock, allowCustom)]
            /\ resp' = Response("appUpdate", u, 200, "App updated")

(***************************************************************************)
(* The reseller's own routes beside the bulk creation: POST                *)
(* /resellers/auth/login, GET /resellers/auth/profile, GET                 *)
(* /resellers/auth/licenses, GET /resellers/dashboard/data.  A token names *)
(* the reseller's id; authenticateResellerToken loads that reseller        *)
(* whatever its active flag is.                                            *)
(***************************************************************************)
\* Reseller.findOne({ email, active: true })
ActiveResellersWithEmail(email) ==
    {r \in Ids(resellers) : resellers[r].email = email /\ resellers[r].active}

\* password: Absent or Given(a string); every reseller's password is Password
ResellerLogin(email, password) ==
    LET r == FindOne(ActiveResellersWithEmail(email)) IN
    /\ UNCHANGED <<users, apps, licenses, resellers, clients, payments, now, nextId,
                   build, pc, loc>>
    /\ IF email = "" \/ password = Absent
       THEN resp' = Response("resellerLogin", NoId, 400, "Email and password are required")
       ELSE IF r = NoId \/ password # Given(Password)
       THEN resp' = Response("resellerLogin", r, 401, "Invalid email or password")
       ELSE resp' = Response("resellerLogin", r, 200, "Login successful")

\* the three GET routes: authenticateResellerToken, then the active check
ResellerRead(route, r) ==
    /\ UNCHANGED <<users, apps, licenses, resellers, clients, payments, now, nextId,
                   build, pc, loc>>
    /\ IF r \notin Ids(resellers)
       THEN resp' = Response(route, r, 401, "Invalid token - reseller not found")
       ELSE IF ~resellers[r].active
       THEN resp' = Response(route, r, 404, "Reseller account not found or inactive")
       ELSE resp' = Response(route, r, 200, "ok")

(***************************************************************************)
(* Reseller management: POST /resellers, PUT /resellers/:id,               *)
(* DELETE /resellers/:id.                                                  *)
(***************************************************************************)
\* resellerSchema defaults around the fields Reseller.create is given
NewReseller(email, a, limit) ==
    [email |-> email, app |-> a, licenseLimit |-> limit, usedLicenses |-> 0,
     active |-> TRUE,
     allowedActions |-> [create |-> TRUE, banUnban |-> TRUE,
                         editExpiry |-> TRUE, delete |-> FALSE]]

ResellersOfOwner(u) ==
    {r \in Ids(resellers) :
        resellers[r].app \in Ids(apps) /\ apps[resellers[r].app].owner = u}

\* a faulty variant of the method below: the plan is not looked at
canCreateResellerByCount(u) ==
    IF users[u].maxResellers = Unlimited THEN TRUE
    ELSE Cardinality(ResellersOfOwner(u)) < users[u].maxResellers

\* userSchema.methods.canCreateReseller
canCreateReseller(u) ==
    IF users[u].plan = "free" THEN FALSE
    ELSE IF users[u].maxResellers = Unlimited THEN TRUE
    ELSE Cardinality(ResellersOfOwner(u)) < users[u].maxResellers

\* finalLicenseLimit of POST /resellers
FinalLicenseLimit(plan, limit) ==
    IF plan = "premium"
    THEN (IF limit # Absent THEN limit[1] ELSE Unlimited)
    ELSE LET asked == IF limit = Absent \/ limit = Given(0) THEN FreeResellerLicenseCap ELSE limit[1]
         IN  IF asked < FreeResellerLicenseCap THEN asked ELSE FreeResellerLicenseCap

ResellerCreate(u, email, a, limit, cap) ==
    /\ u \in Ids(users)
    /\ nextId.reseller <= cap
    /\ UNCHANGED <<users, apps, licenses, clients, payments, now, build, pc, loc>>
    /\ IF a \notin Ids(apps) \/ apps[a].owner # u
       THEN /\ UNCHANGED <<resellers, nextId>>
            /\ resp' = Response("resellerCreate", u, 404, "App not found or you are not the owner")
       ELSE IF ~canCreateReseller(u)
       THEN /\ UNCHANGED <<resellers, nextId>>
            /\ resp' = Response("resellerCreate", u, 403, "Free plan users cannot create resellers")
       ELSE IF \E r \in Ids(resellers) : resellers[r].email = email
       THEN /\ UNCHANGED <<resellers, nextId>>
            /\ resp' = Response("resellerCreate", u, 400, "A reseller with this email already exists")
       ELSE /\ resellers' = Insert(resellers, nextId.reseller,
                                   NewReseller(email, a, FinalLicenseLimit(users[u].plan, limit)))
            /\ nextId' = [nextId EXCEPT !.reseller = @ + 1]
            /\ resp' = Response("resellerCreate", u, 201, "Reseller created successfully")

\* the allowedActions object of a request body: each field is optional
AllowedActionsBody(create, banUnban, editExpiry, delete) ==
    [create |-> create, banUnban |-> banUnban, editExpiry |-> editExpiry, delete |-> delete]

\* a faulty variant of the assignment below: the delete flag of the body is stored
AssignedActionsWithDelete(old, body) ==
    [create |-> IF body.create # Absent THEN body.create[1] ELSE old.create,
     banUnban |-> IF body.banUnban # Absent THEN body.banUnban[1] ELSE old.banUnban,
     editExpiry |-> IF body.editExpiry # Absent THEN body.editExpiry[1] ELSE old.editExpiry,
     delete |-> IF body.delete # Absent THEN body.delete[1] ELSE old.delete]

\* the allowedActions PUT /resellers/:id stores when the body has the object
AssignedActions(old, body) ==
    [create |-> IF body.create # Absent THEN body.create[1] ELSE old.create,
     banUnban |-> IF body.banUnban # Absent THEN body.banUnban[1] ELSE old.banUnban,
     editExpiry |-> IF body.editExpiry # Absent THEN body.editExpiry[1] ELSE old.editExpiry,
     delete |-> FALSE]

\* the fields PUT /resellers/:id assigns; an absent field is left alone
UpdatedReseller(r, limit, active, actions) ==
    [r EXCEPT !.licenseLimit = IF limit # Absent THEN limit[1] ELSE @,
              !.active = IF active # Absent THEN active[1] ELSE @,
              !.allowedActions = IF actions # Absent
                                 THEN AssignedActions(@, actions[1])
                                 ELSE @]

\* the save is followed by populate('user'), a path the Reseller schema does not
\* have: a build with strictPopulate answers 500 after the write
ResellerUpdate(u, r, limit, active, actions) ==
    /\ u \in Ids(users)
    /\ UNCHANGED <<users, apps, licenses, clients, payments, now, nextId, build, pc, loc>>
    /\ IF r \notin Ids(resellers)
       THEN /\ UNCHANGED resellers
            /\ resp' = Response("resellerUpdate", u, 404, "Reseller not found")
       ELSE IF resellers[r].app \notin Ids(apps)
       THEN /\ UNCHANGED resellers
            /\ resp' = Response("resellerUpdate", u, 500, "error")
       ELSE IF apps[resellers[r].app].owner # u
       THEN /\ UNCHANGED resellers
            /\ resp' = Response("resellerUpdate", u, 403, "You can only update resellers for your own apps")
       ELSE IF limit # Absent /\ users[u].plan = "free" /\ limit[1] > FreeResellerLicenseCap
       THEN /\ UNCHANGED resellers
            /\ resp' = Response("resellerUpdate", u, 400, "Free plan users cannot set license limit above 30")
       ELSE /\ resellers' = [resellers EXCEPT ![r] = UpdatedReseller(@, limit, active, actions)]
            /\ resp' = IF build.strictPopulate
                       THEN Response("resellerUpdate", u, 500, "error")
                       ELSE Response("resellerUpdate", u, 200, "Reseller updated successfully")

\* License.countDocuments({ reseller, status: 'ACTIVE' })
LicensesOfReseller(r) == {l \in Ids(licenses) : licenses[l].reseller = r}

\* a faulty variant of the count below: licenses of every status are counted
LicensesOfAnyStatus(r) == LicensesOfReseller(r)

ActiveLicenses(r) == {l \in LicensesOfReseller(r) : licenses[l].status = "ACTIVE"}

ResellerDelete(u, r) ==
    /\ u \in Ids(users)
    /\ UNCHANGED <<users, apps, licenses, clients, payments, now, nextId, build, pc, loc>>
    /\ IF r \notin Ids(resellers)
       THEN /\ UNCHANGED resellers
            /\ resp' = Response("resellerDelete", u, 404, "Reseller not found")
       ELSE IF resellers[r].app \notin Ids(apps)
       THEN /\ UNCHANGED resellers
            /\ resp' = Response("resellerDelete", u, 500, "error")
       ELSE IF apps[resellers[r].app].owner # u
       THEN /\ UNCHANGED resellers
            /\ resp' = Response("resellerDelete", u, 403, "You can only delete resellers for your own apps")
       ELSE IF Cardinality(ActiveLicenses(r)) > 0
       THEN /\ UNCHANGED resellers
            /\ resp' = Response("resellerDelete", u, 400, "Cannot delete reseller with active licenses")
       ELSE /\ resellers' = Remove(resellers, {r})
            /\ resp' = Response("resellerDelete", u, 200, "Reseller deleted successfully")

(***************************************************************************)
(* POST /resellers/auth/licenses: a reseller creates count licenses.       *)
(***************************************************************************)
\* a faulty variant of the test below: the count asked for is not looked at
OverLimitNever(res, count) == FALSE

\* reseller.licenseLimit !== -1 && (reseller.usedLicenses + count) > reseller.licenseLimit
OverLimit(res, count) ==
    res.licenseLimit # Unlimited /\ res.usedLicenses + count > res.licenseLimit

\* authentication (the reseller and its populated app are loaded) and the checks
\* before the creation loop
BulkCheck(p, r, count, expiresAt) ==
    /\ Idle(p)
    /\ UNCHANGED <<users, apps, licenses, resellers, clients, payments, now, nextId, build>>
    /\ IF r \notin Ids(resellers)
       THEN Finish(p, Response("bulkCreate", r, 401, "Invalid token - reseller not found"))
       ELSE LET res == resellers[r] IN
            IF ~res.active
            THEN Finish(p, Response("bulkCreate", r, 404, "Reseller account not found or inactive"))
            ELSE IF count < 1 \/ count > MaxBulkCount
            THEN Finish(p, Response("bulkCreate", r, 400, "Count must be between 1 and 100"))
            ELSE IF ~ResellerCanCreateLicense(res)
            THEN Finish(p, Response("bulkCreate", r, 403, "License limit reached"))
            ELSE IF OverLimit(res, count)
            THEN Finish(p, Response("bulkCreate", r, 403, "Cannot create that many licenses"))
            ELSE IF expiresAt <= now
            THEN Finish(p, Response("bulkCreate", r, 400, "Valid future expiration date is required"))
            ELSE Goto(p, "bulk_genKey",
                      [op |-> "bulkCreate", reseller |-> r, app |-> Populated(apps, res.app),
                       used |-> res.usedLicenses, count |-> count, made |-> 0,
                       key |-> NoKey, expiresAt |-> expiresAt])

\* one License.create of the loop begins: reseller.app._id is read, then the
\* pre-save hook draws a key and looks it up
BulkGenKey(p, draw) ==
    /\ pc[p] = "bulk_genKey"
    /\ UNCHANGED <<users, apps, licenses, resellers, clients, payments, now, nextId, build>>
    /\ IF loc[p].app = NoId
       THEN Finish(p, Response("bulkCreate", loc[p].reseller, 500, "error"))
       ELSE IF LicensesWithKey(draw) # {}
       THEN UNCHANGED <<pc, loc, resp>>
       ELSE Goto(p, "bulk_insert", [loc[p] EXCEPT !.key = draw])

BulkInsert(p, cap) ==
    /\ pc[p] = "bulk_insert"
    /\ nextId.license <= cap
    /\ UNCHANGED <<users, apps, resellers, clients, payments, now, build>>
    /\ LET l == loc[p] IN
       IF ~KeyIndexAllows(l.key)
       THEN /\ UNCHANGED <<licenses, nextId>>
            /\ Finish(p, Response("bulkCreate", l.reseller, 500, "error"))
       ELSE /\ licenses' = Insert(licenses, nextId.license,
                                  NewLicense(l.app, l.key, l.reseller, "reseller", l.reseller, l.expiresAt))
            /\ nextId' = [nextId EXCEPT !.license = @ + 1]
            /\ IF l.made + 1 < l.count
               THEN Goto(p, "bulk_genKey", [l EXCEPT !.made = @ + 1, !.key = NoKey])
               ELSE Goto(p, "bulk_incr", [l EXCEPT !.made = @ + 1, !.key = NoKey])

\* reseller.incrementUsedLicenses(): the loaded document's count plus one, saved
BulkIncrement(p) ==
    /\ pc[p] = "bulk_incr"
    /\ UNCHANGED <<users, apps, licenses, clients, payments, now, nextId, build>>
    /\ LET l == loc[p] IN
       IF l.reseller \notin Ids(resellers)
       THEN /\ UNCHANGED resellers
            /\ Finish(p, Response("bulkCreate", l.reseller, 500, "error"))
       ELSE /\ resellers' = [resellers EXCEPT ![l.reseller].usedLicenses = l.used + 1]
            /\ Goto(p, "bulk_save", l)

\* reseller.usedLicenses += count - 1; reseller.save()
BulkSave(p) ==
    /\ pc[p] = "bulk_save"
    /\ UNCHANGED <<users, apps, licenses, clients, payments, now, nextId, build>>
    /\ LET l == loc[p] IN
       IF l.count = 1
       THEN /\ UNCHANGED resellers
            /\ Finish(p, Response("bulkCreate", l.reseller, 201, "Successfully created"))
       ELSE IF l.reseller \notin Ids(resellers)
       THEN /\ UNCHANGED resellers
            /\ Finish(p, Response("bulkCreate", l.reseller, 500, "error"))
       ELSE /\ resellers' = [resellers EXCEPT ![l.reseller].usedLicenses = l.used + l.count]
            /\ Finish(p, Response("bulkCreate", l.reseller, 201, "Successfully created"))

(***************************************************************************)
(* Client registration and the license lifecycle: one app of owner 1 with  *)
(* two fresh licenses (created at time 0, expiring at time 1); user 2 is   *)
(* another registered owner.  Overlapping registrations, and the owner's   *)
(* requests between their steps.                                           *)
(***************************************************************************)
Usernames == {"al", "bob", "eve"}
Hw1 == <<"h", "1">>
RegKeys == 1..(MaxLicenses + 1)

InitReg ==
    /\ users = (1 :> [NewUser("free") EXCEPT !.apps = {1}]) @@ (2 :> NewUser("free"))
    /\ apps = (1 :> NewApp(1, 1))
    /\ licenses = [i \in 1..MaxLicenses |-> NewLicense(1, i, 1, "owner", NoId, 1)]
    /\ resellers = <<>>
    /\ clients = <<>>
    /\ payments = <<>>
    /\ now = 0
    /\ nextId = [user |-> 3, app |-> 2, license |-> MaxLicenses + 1, client |-> 1,
                 reseller |-> 1, payment |-> 1]
    /\ pc = [p \in Procs |-> "idle"]
    /\ loc = [p \in Procs |-> NoLoc]
    /\ resp = Response("none", NoId, 0, "")
    /\ build = [strictQuery |-> FALSE, strictPopulate |-> TRUE, devMode |-> FALSE]

\* one registration at a time, with the owner's requests between its steps
NextReg ==
    \/ \E n \in Usernames, k \in RegKeys : RegisterFindLicense(1, n, k, Hw1)
    \/ RegisterFindClient(1)
    \/ RegisterCreateClient(1, MaxClients)
    \/ RegisterSaveLicense(1)
    \/ \E u \in Ids(users), c \in 1..MaxClients : ClientDelete(u, c)
    \/ \E u \in Ids(users), l \in 1..MaxLicenses,
          s \in Statuses \cup {Undefined}, e \in {NoTime, MaxTime} :
          LicenseUpdate(u, l, s, e)
    \/ \E u \in Ids(users), l \in 1..MaxLicenses : LicenseToggleBan(u, l)
    \/ \E u \in Ids(users), l \in 1..MaxLicenses : LicenseDelete(u, l)
    \/ Tick

SpecReg == InitReg /\ [][NextReg]_vars

\* registrations that overlap in time, in every interleaving of their steps
NextRace ==
    \/ \E p \in Procs, n \in Usernames, k \in RegKeys :
          RegisterFindLicense(p, n, k, Hw1)
    \/ \E p \in Procs : RegisterFindClient(p)
    \/ \E p \in Procs : RegisterCreateClient(p, MaxClients)
    \/ \E p \in Procs : RegisterSaveLicense(p)
    \/ \E u \in Ids(users), c \in 1..MaxClients : ClientDelete(u, c)
    \/ Tick

SpecRace == InitReg /\ [][NextRace]_vars


(***************************************************************************)
(* Plans and apps, from the empty store: owners register, pay, cancel,     *)
(* create and delete apps, one request at a time.  Generated appIds never  *)
(* collide here.                                                           *)
(***************************************************************************)
InitPlan ==
    /\ users = <<>>
    /\ apps = <<>>
    /\ licenses = <<>>
    /\ resellers = <<>>
    /\ clients = <<>>
    /\ payments = <<>>
    /\ now = 0
    /\ nextId = [user |-> 1, app |-> 1, license |-> 1, client |-> 1,
                 reseller |-> 1, payment |-> 1]
    /\ pc = [p \in Procs |-> "idle"]
    /\ loc = [p \in Procs |-> NoLoc]
    /\ resp = Response("none", NoId, 0, "")
    /\ build \in [strictQuery : {FALSE}, strictPopulate : {TRUE}, devMode : BOOLEAN]

GatewayStatuses == {"captured", "failed", "error"}

NextPlan ==
    \/ Quiet /\ UserRegister(MaxUsers)
    \/ Quiet /\ \E u \in Ids(users), m, s \in BOOLEAN, g \in GatewayStatuses,
                   o \in Ids(users), i \in 1..MaxPayments :
                   PaymentVerify(u, m, s, g, o, i, MaxPayments)
    \/ Quiet /\ \E u \in Ids(users) : CancelSubscription(u)
    \/ Quiet /\ \E u \in Ids(users) : AppCreateCheck(1, u)
    \/ AppCreateGenId(1, nextId.app)
    \/ AppCreateInsert(1, MaxApps)
    \/ AppCreatePush(1)
    \/ Quiet /\ \E u \in Ids(users), a \in 1..MaxApps : AppDelete(u, a)

SpecPlan == InitPlan /\ [][NextPlan]_vars

(***************************************************************************)
(* License keys: a premium owner (user 1) with one app and one reseller,   *)
(* as left by register, verify, POST /apps and POST /resellers; user 2 is  *)
(* another account.  Owner, account and reseller create licenses in        *)
(* overlapping requests; generated and custom keys come from a small key   *)
(* space, so draws collide.                                                *)
(***************************************************************************)
Keys == 1..MaxKeys

OwnerWithReseller ==
    /\ users = <<[NewUser("premium") EXCEPT !.apps = {1}, !.paymentStatus = "paid"],
                 NewUser("free")>>
    /\ apps = <<NewApp(1, 1)>>
    /\ resellers = <<NewReseller("r1", 1, Unlimited)>>
    /\ licenses = <<>>
    /\ clients = <<>>
    /\ payments = <<>>
    /\ now = 0
    /\ nextId = [user |-> 3, app |-> 2, license |-> 1, client |-> 1,
                 reseller |-> 2, payment |-> 1]
    /\ pc = [p \in Procs |-> "idle"]
    /\ loc = [p \in Procs |-> NoLoc]
    /\ resp = Response("none", NoId, 0, "")

InitKeys ==
    /\ OwnerWithReseller
    /\ build = [strictQuery |-> TRUE, strictPopulate |-> TRUE, devMode |-> FALSE]

NextKeys ==
    \/ \E b \in BOOLEAN : AppUpdate(1, 1, Absent, Absent, Given(b))
    \/ \E p \in Procs, u \in Ids(users), k \in Keys \cup {NoKey} :
          LicenseCreateCheck(p, u, 1, k, MaxTime)
    \/ \E p \in Procs, k \in Keys : LicenseCreateGenKey(p, k)
    \/ \E p \in Procs : LicenseCreateInsert(p, MaxIssued)
    \/ \E p \in Procs : LicenseCreateIncrement(p)
    \/ \E p \in Procs, c \in 1..MaxCount : BulkCheck(p, 1, c, MaxTime)
    \/ \E p \in Procs, k \in Keys : BulkGenKey(p, k)
    \/ \E p \in Procs : BulkInsert(p, MaxIssued)
    \/ \E p \in Procs : BulkIncrement(p)
    \/ \E p \in Procs : BulkSave(p)

SpecKeys == InitKeys /\ [][NextKeys]_vars

(***************************************************************************)
(* Reseller quota: the owner of SpecKeys' initial state changes the        *)
(* reseller's licenseLimit and deletes licenses while the reseller creates *)
(* licenses through the bulk route in overlapping requests.  Generated     *)
(* keys never collide here.                                                *)
(***************************************************************************)
KeysHeld == {loc[p].key : p \in {q \in Procs : pc[q] \in {"lic_insert", "bulk_insert"}}}

\* a draw of the key generator that collides with no stored or chosen key
FreshKey ==
    MinOf({k \in 1..(nextId.license + NProcs) : LicensesWithKey(k) = {} /\ k \notin KeysHeld})

InitQuota ==
    /\ OwnerWithReseller
    /\ build = [strictQuery |-> FALSE, strictPopulate |-> TRUE, devMode |-> FALSE]

NextQuota ==
    \/ \E n \in 1..MaxCount : ResellerUpdate(1, 1, Given(n), Absent, Absent)
    \/ \E p \in Procs, c \in 1..MaxCount : BulkCheck(p, 1, c, MaxTime)
    \/ \E p \in Procs : BulkGenKey(p, FreshKey)
    \/ \E p \in Procs : BulkInsert(p, MaxIssued)
    \/ \E p \in Procs : BulkIncrement(p)
    \/ \E p \in Procs : BulkSave(p)
    \/ \E l \in 1..MaxIssued : LicenseDelete(1, l)

SpecQuota == InitQuota /\ [][NextQuota]_vars

(***************************************************************************)
(* Reseller permissions: the owner switches the reseller's create flag and *)
(* active flag; the reseller creates licenses through the bulk route and,  *)
(* in a build whose reseller lookup matches, through POST /licenses as     *)
(* account 2.  One request at a time.                                      *)
(***************************************************************************)
InitPerm ==
    /\ OwnerWithReseller
    /\ build \in [strictQuery : BOOLEAN, strictPopulate : {TRUE}, devMode : {FALSE}]

\* the bodies of PUT /resellers/:id the owner sends: one flag at a time
FlagEdits ==
    {<<Given(b), Absent>> : b \in BOOLEAN}
    \cup {<<Absent, Given(AllowedActionsBody(Given(b), Absent, Absent, Absent))>> : b \in BOOLEAN}

NextPerm ==
    \/ Quiet /\ \E e \in FlagEdits : ResellerUpdate(1, 1, Absent, e[1], e[2])
    \/ \E c \in 1..MaxCount : BulkCheck(1, 1, c, MaxTime)
    \/ BulkGenKey(1, FreshKey)
    \/ BulkInsert(1, MaxIssued)
    \/ BulkIncrement(1)
    \/ BulkSave(1)
    \/ \E u \in Ids(users) : LicenseCreateCheck(1, u, 1, NoKey, MaxTime)
    \/ LicenseCreateGenKey(1, FreshKey)
    \/ LicenseCreateInsert(1, MaxIssued)
    \/ LicenseCreateIncrement(1)

SpecPerm == InitPerm /\ [][NextPerm]_vars

(***************************************************************************)
(* Reseller deletion: from SpecKeys' initial state the reseller creates    *)
(* licenses, the owner changes their status and bans them, deletes         *)
(* resellers and creates new ones.  One request at a time.                 *)
(***************************************************************************)
InitResDel ==
    /\ OwnerWithReseller
    /\ build = [strictQuery |-> FALSE, strictPopulate |-> TRUE, devMode |-> FALSE]

NextResDel ==
    \/ \E r \in 1..MaxResellers, c \in 1..MaxCount : BulkCheck(1, r, c, MaxTime)
    \/ BulkGenKey(1, FreshKey)
    \/ BulkInsert(1, MaxIssued)
    \/ BulkIncrement(1)
    \/ BulkSave(1)
    \/ Quiet /\ \E l \in 1..MaxIssued, s \in Statuses : LicenseUpdate(1, l, s, NoTime)
    \/ Quiet /\ \E l \in 1..MaxIssued : LicenseToggleBan(1, l)
    \/ Quiet /\ \E u \in Ids(users), r \in 1..MaxResellers : ResellerDelete(u, r)
    \/ Quiet /\ ResellerCreate(1, "r2", 1, Absent, MaxResellers)

SpecResDel == InitResDel /\ [][NextResDel]_vars

(***************************************************************************)
(* The owner's per-app quota: from SpecKeys' initial state the owner       *)
(* cancels the subscription (cancel-subscription looks at the app count    *)
(* only, so the reseller stays) and the reseller keeps creating licenses,  *)
(* up to one more than the free plan's per-app limit.  One request at a    *)
(* time.                                                                   *)
(***************************************************************************)
QuotaCap == FreeMaxLicensesPerApp + 1

InitOwnerQuota ==
    /\ OwnerWithReseller
    /\ build = [strictQuery |-> FALSE, strictPopulate |-> TRUE, devMode |-> FALSE]

NextOwnerQuota ==
    \/ Quiet /\ CancelSubscription(1)
    \/ \E c \in 1..MaxCount : BulkCheck(1, 1, c, MaxTime)
    \/ BulkGenKey(1, FreshKey)
    \/ BulkInsert(1, QuotaCap)
    \/ BulkIncrement(1)
    \/ BulkSave(1)

SpecOwnerQuota == InitOwnerQuota /\ [][NextOwnerQuota]_vars

(***************************************************************************)
(* The reseller's own limit: from SpecKeys' initial state the owner sets   *)
(* the reseller's licenseLimit and active flag and the reseller asks for   *)
(* licenses through the bulk route, also for none and for more than the    *)
(* limit.  One request at a time.                                          *)
(***************************************************************************)
InitLimit ==
    /\ OwnerWithReseller
    /\ build = [strictQuery |-> FALSE, strictPopulate |-> TRUE, devMode |-> FALSE]

\* the counts a bulk request asks for: none, the valid ones, one above the maximum
BulkCounts == 0..MaxCount \cup {MaxBulkCount + 1}

NextLimit ==
    \/ Quiet /\ \E n \in 1..MaxIssued \cup {Unlimited} :
                   ResellerUpdate(1, 1, Given(n), Absent, Absent)
    \/ Quiet /\ \E b \in BOOLEAN : ResellerUpdate(1, 1, Absent, Given(b), Absent)
    \/ \E c \in BulkCounts : BulkCheck(1, 1, c, MaxTime)
    \/ BulkGenKey(1, FreshKey)
    \/ BulkInsert(1, MaxIssued)
    \/ BulkIncrement(1)
    \/ BulkSave(1)

SpecLimit == InitLimit /\ [][NextLimit]_vars

(***************************************************************************)
(* Logins of the clients of one app: a client registers, the owner edits   *)
(* the app's settings, bans the client or resets its hwid, time passes,    *)
(* and logins arrive with every combination of credentials.                *)
(***************************************************************************)
Hw2 == <<"h", "2">>
PaddedHw1 == <<Space, "h", "1">>
Hwids == {Hw1, Hw2, PaddedHw1}
Passwords == {Password, "other12"}

NextLogin ==
    \/ \E n \in {"bob"}, h \in {Hw1, PaddedHw1} : RegisterFindLicense(1, n, 1, h)
    \/ RegisterFindClient(1)
    \/ RegisterCreateClient(1, MaxClients)
    \/ RegisterSaveLicense(1)
    \/ Quiet /\ \E b \in BOOLEAN : AppUpdate(1, 1, Given(b), Absent, Absent)
    \/ Quiet /\ \E b \in BOOLEAN : AppUpdate(1, 1, Absent, Given(b), Absent)
    \/ Quiet /\ \E u \in Ids(users) : ClientToggleBan(u, 1)
    \/ Quiet /\ \E u \in Ids(users) : ClientResetHwid(u, 1)
    \/ Quiet /\ Tick
    \/ Quiet /\ \E a \in {NoId, 1}, n \in {"bob", "eve"}, pw \in Passwords,
                   h \in Hwids \cup {<<>>} : ClientLogin(a, n, pw, h)

SpecLogin == InitReg /\ [][NextLogin]_vars

(***************************************************************************)
(* Deletions: two owners with an app each, a reseller of the first app.    *)
(* Owners and the reseller create licenses; every account sends every      *)
(* deletion request and every allowedActions body to PUT /resellers/:id.   *)
(* One request at a time.                                                  *)
(***************************************************************************)
InitDel ==
    /\ users = <<[NewUser("premium") EXCEPT !.apps = {1}, !.paymentStatus = "paid"],
                 [NewUser("free") EXCEPT !.apps = {2}]>>
    /\ apps = <<NewApp(1, 1), NewApp(2, 2)>>
    /\ resellers = <<NewReseller("r1", 1, Unlimited)>>
    /\ licenses = <<>>
    /\ clients = <<>>
    /\ payments = <<>>
    /\ now = 0
    /\ nextId = [user |-> 3, app |-> 3, license |-> 1, client |-> 1,
                 reseller |-> 2, payment |-> 1]
    /\ pc = [p \in Procs |-> "idle"]
    /\ loc = [p \in Procs |-> NoLoc]
    /\ resp = Response("none", NoId, 0, "")
    /\ build = [strictQuery |-> FALSE, strictPopulate |-> TRUE, devMode |-> FALSE]

OptionalFlags == {Absent, Given(TRUE), Given(FALSE)}

\* the allowedActions objects sent to PUT /resellers/:id
ActionBodies == {AllowedActionsBody(c, Absent, Absent, d) : c \in OptionalFlags, d \in OptionalFlags}

NextDel ==
    \/ Quiet /\ \E u \in Ids(users), r \in 1..MaxResellers, b \in ActionBodies :
                   ResellerUpdate(u, r, Absent, Absent, Given(b))
    \/ Quiet /\ ResellerCreate(1, "r2", 1, Absent, MaxResellers)
    \/ BulkCheck(1, 1, 1, MaxTime)
    \/ BulkGenKey(1, FreshKey)
    \/ BulkInsert(1, MaxIssued)
    \/ BulkIncrement(1)
    \/ BulkSave(1)
    \/ \E u \in Ids(users), a \in 1..2 : LicenseCreateCheck(1, u, a, NoKey, MaxTime)
    \/ LicenseCreateGenKey(1, FreshKey)
    \/ LicenseCreateInsert(1, MaxIssued)
    \/ Quiet /\ \E u \in Ids(users), l \in 1..MaxIssued : LicenseDelete(u, l)
    \/ Quiet /\ \E u \in Ids(users), a \in 0..2 : LicenseBulkDelete(u, a)
    \/ Quiet /\ \E u \in Ids(users), a \in 1..2 : AppDelete(u, a)

SpecDel == InitDel /\ [][NextDel]_vars

(***************************************************************************)
(* Resellers and the plan: an owner with one app pays, cancels, and asks   *)
(* for resellers to be created and deleted, one request at a time.         *)
(***************************************************************************)
InitResPlan ==
    /\ users = <<[NewUser("free") EXCEPT !.apps = {1}], NewUser("free")>>
    /\ apps = <<NewApp(1, 1)>>
    /\ resellers = <<>>
    /\ licenses = <<>>
    /\ clients = <<>>
    /\ payments = <<>>
    /\ now = 0
    /\ nextId = [user |-> 3, app |-> 2, license |-> 1, client |-> 1,
                 reseller |-> 1, payment |-> 1]
    /\ pc = [p \in Procs |-> "idle"]
    /\ loc = [p \in Procs |-> NoLoc]
    /\ resp = Response("none", NoId, 0, "")
    /\ build \in [strictQuery : {FALSE}, strictPopulate : {TRUE}, devMode : BOOLEAN]

ResellerEmails == {"r1", "r2"}

NextResPlan ==
    \/ \E u \in Ids(users), m, s \in BOOLEAN, g \in GatewayStatuses,
          o \in Ids(users), i \in 1..MaxPayments :
          PaymentVerify(u, m, s, g, o, i, MaxPayments)
    \/ \E u \in Ids(users) : CancelSubscription(u)
    \/ \E u \in Ids(users), e \in ResellerEmails, a \in 1..2, n \in {Absent, Given(1)} :
          ResellerCreate(u, e, a, n, MaxResellers)
    \/ \E u \in Ids(users), r \in 1..MaxResellers : ResellerDelete(u, r)

SpecResPlan == InitResPlan /\ [][NextResPlan]_vars

(***************************************************************************)
(* Clients and the licenses they consumed: the owner of an app that allows *)
(* custom keys creates licenses with keys of the owner's choice, deletes   *)
(* licenses and clients and creates clients directly; clients register.    *)
(* One request at a time.                                                  *)
(***************************************************************************)
InitReuse ==
    /\ users = <<[NewUser("free") EXCEPT !.apps = {1}], NewUser("free")>>
    /\ apps = <<[NewApp(1, 1) EXCEPT !.allowCustomLicenseKey = TRUE]>>
    /\ resellers = <<>>
    /\ licenses = <<>>
    /\ clients = <<>>
    /\ payments = <<>>
    /\ now = 0
    /\ nextId = [user |-> 3, app |-> 2, license |-> 1, client |-> 1,
                 reseller |-> 1, payment |-> 1]
    /\ pc = [p \in Procs |-> "idle"]
    /\ loc = [p \in Procs |-> NoLoc]
    /\ resp = Response("none", NoId, 0, "")
    /\ build = [strictQuery |-> FALSE, strictPopulate |-> TRUE, devMode |-> FALSE]

NextReuse ==
    \/ Quiet /\ \E k \in Keys : LicenseCreateCheck(1, 1, 1, k, MaxTime)
    \/ LicenseCreateInsert(1, MaxIssued)
    \/ Quiet /\ \E n \in {"bob", "eve"}, k \in Keys : RegisterFindLicense(1, n, k, Hw1)
    \/ RegisterFindClient(1)
    \/ RegisterCreateClient(1, MaxClients)
    \/ RegisterSaveLicense(1)
    \/ Quiet /\ \E h \in {<<>>, Hw1} : ClientCreateDirect(1, "ann", 1, h, MaxTime, MaxClients)
    \/ Quiet /\ \E u \in Ids(users), c \in 1..MaxClients : ClientDelete(u, c)
    \/ Quiet /\ \E l \in 1..MaxIssued : LicenseDelete(1, l)

SpecReuse == InitReuse /\ [][NextReuse]_vars

(***************************************************************************)
(* Webhooks: users pay through the verify route and the gateway, or anyone *)
(* else, delivers webhooks with every body and signature, in a deployment  *)
(* with or without a webhook secret.                                       *)
(***************************************************************************)
InitWebhook ==
    /\ users = <<NewUser("free"), NewUser("free")>>
    /\ apps = <<>>
    /\ resellers = <<>>
    /\ licenses = <<>>
    /\ clients = <<>>
    /\ payments = <<>>
    /\ now = 0
    /\ nextId = [user |-> 3, app |-> 1, license |-> 1, client |-> 1,
                 reseller |-> 1, payment |-> 1]
    /\ pc = [p \in Procs |-> "idle"]
    /\ loc = [p \in Procs |-> NoLoc]
    /\ resp = Response("none", NoId, 0, "")
    /\ build \in [strictQuery : {FALSE}, strictPopulate : {TRUE}, devMode : {FALSE},
                  webhookSecret : BOOLEAN]

WebhookBodies ==
    {WebhookBody(e, i, 1, l) : e \in WebhookEvents, i \in 1..MaxPayments, l \in Layouts}

\* the signatures sent with a body: computed with the configured secret or
\* another one, over the bytes sent or their compact form, or no header
WebhookSignatures(b) ==
    {Hmac(k, t) : k \in Secrets, t \in {b, Stringify(b)}} \cup {NoSignature}

NextWebhook ==
    \/ \E u \in Ids(users), i \in 1..MaxPayments :
          PaymentVerify(u, FALSE, TRUE, "captured", u, i, MaxPayments)
    \/ \E b \in WebhookBodies : \E s \in WebhookSignatures(b) : Webhook(b, s)

SpecWebhook == InitWebhook /\ [][NextWebhook]_vars

(***************************************************************************)
(* The used flag: from SpecReuse's initial state the owner creates         *)
(* licenses, changes their status and expiry, bans and unbans them and     *)
(* deletes clients, also between the steps of a registration.              *)
(***************************************************************************)
NextUsed ==
    \/ \E k \in Keys : LicenseCreateCheck(2, 1, 1, k, MaxTime)
    \/ LicenseCreateInsert(2, MaxIssued)
    \/ \E n \in {"bob", "eve"}, k \in Keys : RegisterFindLicense(1, n, k, Hw1)
    \/ RegisterFindClient(1)
    \/ RegisterCreateClient(1, MaxClients)
    \/ RegisterSaveLicense(1)
    \/ \E l \in 1..MaxIssued : LicenseToggleBan(1, l)
    \/ \E l \in 1..MaxIssued, s \in {"ACTIVE", "REVOKED", Undefined}, e \in {NoTime, MaxTime} :
          LicenseUpdate(1, l, s, e)
    \/ \E c \in 1..MaxClients : ClientDelete(1, c)

SpecUsed == InitReuse /\ [][NextUsed]_vars

(***************************************************************************)
(* The owner's license quota: an owner with one app creates licenses       *)
(* through POST /licenses, pays and cancels, one request at a time, up to  *)
(* one license more than the free plan allows.                             *)
(***************************************************************************)
InitOwnerLic ==
    /\ users = <<[NewUser("free") EXCEPT !.apps = {1}], NewUser("free")>>
    /\ apps = <<NewApp(1, 1)>>
    /\ resellers = <<>>
    /\ licenses = <<>>
    /\ clients = <<>>
    /\ payments = <<>>
    /\ now = 0
    /\ nextId = [user |-> 3, app |-> 2, license |-> 1, client |-> 1,
                 reseller |-> 1, payment |-> 1]
    /\ pc = [p \in Procs |-> "idle"]
    /\ loc = [p \in Procs |-> NoLoc]
    /\ resp = Response("none", NoId, 0, "")
    /\ build = [strictQuery |-> FALSE, strictPopulate |-> TRUE, devMode |-> FALSE]

NextOwnerLic ==
    \/ Quiet /\ \E i \in 1..MaxPayments : PaymentVerify(1, FALSE, TRUE, "captured", 1, i, MaxPayments)
    \/ Quiet /\ CancelSubscription(1)
    \/ \E u \in Ids(users) : LicenseCreateCheck(1, u, 1, NoKey, MaxTime)
    \/ LicenseCreateGenKey(1, FreshKey)
    \/ LicenseCreateInsert(1, QuotaCap)

SpecOwnerLic == InitOwnerLic /\ [][NextOwnerLic]_vars

(***************************************************************************)
(* Overlapping creations by one free-plan owner.  The owner has one app    *)
(* that holds one license less than the free plan allows (the state        *)
(* SpecOwnerLic reaches after that many creations) and sends POST /apps    *)
(* and POST /licenses in overlapping requests.  A generated appId or key   *)
(* is one of two values, so two requests can draw the same one.            *)
(***************************************************************************)
InitOverlap ==
    /\ users = <<[NewUser("free") EXCEPT !.apps = {1}]>>
    /\ apps = <<NewApp(1, 1)>>
    /\ resellers = <<>>
    /\ licenses = [i \in 1..(FreeMaxLicensesPerApp - 1) |->
                      NewLicense(1, i, 1, "owner", NoId, MaxTime)]
    /\ clients = <<>>
    /\ payments = <<>>
    /\ now = 0
    /\ nextId = [user |-> 2, app |-> 2, license |-> FreeMaxLicensesPerApp, client |-> 1,
                 reseller |-> 1, payment |-> 1]
    /\ pc = [p \in Procs |-> "idle"]
    /\ loc = [p \in Procs |-> NoLoc]
    /\ resp = Response("none", NoId, 0, "")
    /\ build = [strictQuery |-> FALSE, strictPopulate |-> TRUE, devMode |-> FALSE]

\* the values the two generators can return
AppIdDraws == {nextId.app, nextId.app + 1}
KeyDraws == {nextId.license, nextId.license + 1}

NextOverlap ==
    \/ \E p \in Procs : AppCreateCheck(p, 1)
    \/ \E p \in Procs, d \in AppIdDraws : AppCreateGenId(p, d)
    \/ \E p \in Procs : AppCreateInsert(p, MaxApps)
    \/ \E p \in Procs : AppCreatePush(p)
    \/ \E p \in Procs : LicenseCreateCheck(p, 1, 1, NoKey, MaxTime)
    \/ \E p \in Procs, d \in KeyDraws : LicenseCreateGenKey(p, d)
    \/ \E p \in Procs : LicenseCreateInsert(p, QuotaCap)

SpecOverlap == InitOverlap /\ [][NextOverlap]_vars

(***************************************************************************)
(* Overlapping logins: a client registers, then logins of that client      *)
(* arrive in overlapping requests while time passes and the owner bans     *)
(* and unbans the client.                                                  *)
(***************************************************************************)
NextLoginRace ==
    \/ RegisterFindLicense(1, "bob", 1, Hw1)
    \/ RegisterFindClient(1)
    \/ RegisterCreateClient(1, MaxClients)
    \/ RegisterSaveLicense(1)
    \/ \E p \in Procs, pw \in Passwords, h \in {Hw1, Hw2} : LoginLoad(p, 1, "bob", pw, h)
    \/ \E p \in Procs : LoginSave(p)
    \/ ClientToggleBan(1, 1)
    \/ Tick

SpecLoginRace == InitReg /\ [][NextLoginRace]_vars

(***************************************************************************)
(* Sessions: two owners with an app each; a client registers in the first  *)
(* app, the owners pause their apps and ban the client, time passes, and   *)
(* validate-session requests arrive with every combination of username,    *)
(* appId and appSecret.  One request at a time.                            *)
(***************************************************************************)
InitSession ==
    /\ users = <<[NewUser("free") EXCEPT !.apps = {1}], [NewUser("free") EXCEPT !.apps = {2}]>>
    /\ apps = <<NewApp(1, 1), NewApp(2, 2)>>
    /\ licenses = [i \in 1..MaxLicenses |-> NewLicense(1, i, 1, "owner", NoId, 1)]
    /\ resellers = <<>>
    /\ clients = <<>>
    /\ payments = <<>>
    /\ now = 0
    /\ nextId = [user |-> 3, app |-> 3, license |-> MaxLicenses + 1, client |-> 1,
                 reseller |-> 1, payment |-> 1]
    /\ pc = [p \in Procs |-> "idle"]
    /\ loc = [p \in Procs |-> NoLoc]
    /\ resp = Response("none", NoId, 0, "")
    /\ build = [strictQuery |-> FALSE, strictPopulate |-> TRUE, devMode |-> FALSE]

SessionNames == {"bob", "eve", ""}
SessionAppIds == {1, 2, 3, NoKey}
SessionSecrets == {AppSecret(apps[a]) : a \in Ids(apps)} \cup {<<"secret", 3>>, NoSecret}

NextSession ==
    \/ RegisterFindLicense(1, "bob", 1, Hw1)
    \/ RegisterFindClient(1)
    \/ RegisterCreateClient(1, MaxClients)
    \/ RegisterSaveLicense(1)
    \/ Quiet /\ \E a \in Ids(apps), b \in BOOLEAN :
                   AppUpdate(apps[a].owner, a, Given(b), Absent, Absent)
    \/ Quiet /\ ClientToggleBan(1, 1)
    \/ Quiet /\ Tick
    \/ Quiet /\ \E n \in SessionNames, id \in SessionAppIds, s \in SessionSecrets :
                   ValidateSession(n, id, s)

SpecSession == InitSession /\ [][NextSession]_vars

(***************************************************************************)
(* Deleting an app while licenses are created for it: the owner creates    *)
(* and deletes apps and sends POST /licenses in requests that overlap the  *)
(* deletions.                                                              *)
(***************************************************************************)
NextAppDel ==
    \/ \E p \in Procs : AppCreateCheck(p, 1)
    \/ \E p \in Procs : AppCreateGenId(p, nextId.app)
    \/ \E p \in Procs : AppCreateInsert(p, MaxApps)
    \/ \E p \in Procs : AppCreatePush(p)
    \/ \E p \in Procs, a \in 1..MaxApps : LicenseCreateCheck(p, 1, a, NoKey, MaxTime)
    \/ \E p \in Procs : LicenseCreateGenKey(p, FreshKey)
    \/ \E p \in Procs : LicenseCreateInsert(p, MaxIssued)
    \/ \E u \in Ids(users), a \in 1..MaxApps : AppDelete(u, a)

SpecAppDel == InitReg /\ [][NextAppDel]_vars

(***************************************************************************)
(* Extensions: a client registers, time passes, and the accounts send      *)
(* PATCH /clients/:id/extend with whole and fractional numbers of days.    *)
(* One request at a time.                                                  *)
(***************************************************************************)
DaysSent == {Absent} \cup {Given(d) : d \in (0 - 2)..Whole(2)}

NextExtend ==
    \/ RegisterFindLicense(1, "bob", 1, Hw1)
    \/ RegisterFindClient(1)
    \/ RegisterCreateClient(1, MaxClients)
    \/ RegisterSaveLicense(1)
    \/ Quiet /\ Tick
    \/ Quiet /\ \E u \in Ids(users), c \in 1..MaxClients, d \in DaysSent : ClientExtend(u, c, d)

SpecExtend == InitReg /\ [][NextExtend]_vars

(***************************************************************************)
(* A deactivated reseller: the owner switches the reseller's active flag   *)
(* and permissions, also while a bulk creation is in progress; the         *)
(* reseller logs in, reads its profile, licenses and dashboard and creates *)
(* licenses with the token it was given.                                   *)
(***************************************************************************)
ResellerReadRoutes == {"resellerProfile", "resellerLicenses", "resellerDashboard"}
LoginPasswords == {Absent, Given(Password), Given("other12")}

NextInactive ==
    \/ \E e \in FlagEdits : ResellerUpdate(1, 1, Absent, e[1], e[2])
    \/ \E r \in 1..MaxResellers, c \in 1..MaxCount : BulkCheck(1, r, c, MaxTime)
    \/ BulkGenKey(1, FreshKey)
    \/ BulkInsert(1, MaxIssued)
    \/ BulkIncrement(1)
    \/ BulkSave(1)
    \/ Quiet /\ \E e \in ResellerEmails, pw \in LoginPasswords : ResellerLogin(e, pw)
    \/ Quiet /\ \E route \in ResellerReadRoutes, r \in 1..MaxResellers : ResellerRead(route, r)

SpecInactive == InitQuota /\ [][NextInactive]_vars

(***************************************************************************)
(* A client and the license it consumed: a client registers, the owner     *)
(* bans, updates and deletes the license (also between the steps of the    *)
(* registration), time passes, and the client logs in and validates its    *)
(* session.                                                                *)
(***************************************************************************)
NextFrame ==
    \/ \E n \in {"bob", "eve"} : RegisterFindLicense(1, n, 1, Hw1)
    \/ RegisterFindClient(1)
    \/ RegisterCreateClient(1, MaxClients)
    \/ RegisterSaveLicense(1)
    \/ \E l \in 1..MaxLicenses, s \in Statuses \cup {Undefined}, e \in {NoTime, MaxTime} :
          LicenseUpdate(1, l, s, e)
    \/ \E l \in 1..MaxLicenses : LicenseToggleBan(1, l)
    \/ \E l \in 1..MaxLicenses : LicenseDelete(1, l)
    \/ Tick
    \/ Quiet /\ \E pw \in Passwords, h \in {Hw1, Hw2} : ClientLogin(1, "bob", pw, h)
    \/ Quiet /\ ValidateSession("bob", 1, AppSecret(apps[1]))

SpecFrame == InitReg /\ [][NextFrame]_vars

(***************************************************************************)
(* Refunds: two users pay; the gateway reports failures through the        *)
(* webhook; every user asks for refunds of every payment.                  *)
(***************************************************************************)
RefundIds == 1..MaxRefunds

NextRefund ==
    \/ \E u \in Ids(users), i \in 1..MaxPayments :
          PaymentVerify(u, FALSE, TRUE, "captured", u, i, MaxPayments)
    \/ \E i \in 1..MaxPayments :
          LET b == WebhookBody("payment.failed", i, NoId, "compact")
          IN  Webhook(b, Hmac("configured", Stringify(b)))
    \/ \E u \in Ids(users), pid \in 1..MaxPayments, ok \in BOOLEAN, r \in RefundIds :
          PaymentRefund(u, pid, ok, r)

SpecRefund == InitWebhook /\ [][NextRefund]_vars

(***************************************************************************)
(* The reseller's limit and the owner's plan: from SpecKeys' initial state *)
(* the owner cancels and pays again, creates resellers and sets license    *)
(* limits, -1 and values around the free plan's 30 included.  One request  *)
(* at a time.                                                              *)
(***************************************************************************)
LimitsSent ==
    {Absent} \cup {Given(n) : n \in {Unlimited, 0, 1, FreeResellerLicenseCap,
                                     FreeResellerLicenseCap + 1}}

NextFreeLimit ==
    \/ CancelSubscription(1)
    \/ \E i \in 1..MaxPayments : PaymentVerify(1, FALSE, TRUE, "captured", 1, i, MaxPayments)
    \/ \E e \in ResellerEmails, n \in LimitsSent : ResellerCreate(1, e, 1, n, MaxResellers)
    \/ \E r \in 1..MaxResellers, n \in LimitsSent : ResellerUpdate(1, r, n, Absent, Absent)

SpecFreeLimit == InitQuota /\ [][NextFreeLimit]_vars

(***************************************************************************)
(* Claims.                                                                 *)
(***************************************************************************)
LiveClients == Ids(clients)

\* C1: two registrations with the same license key that overlap in time create
\* exactly one Client: never do two Clients hold the same license key.
C1_OneClientPerKey ==
    \A c, d \in LiveClients :
        (clients[c].licenseKey # NoKey /\ clients[c].licenseKey = clients[d].licenseKey)
            => c = d

\* C3: every License with used = true has a non-null usedBy.
C3_UsedHasUsedBy ==
    \A l \in Ids(licenses) : licenses[l].used => licenses[l].usedBy # NoId

\* a consumed license that was banned afterwards and is still bound to its client
C3_Witness ==
    \E l \in Ids(licenses) :
        /\ licenses[l].used
        /\ licenses[l].status = "BANNED"
        /\ licenses[l].usedBy \in LiveClients

\* the step of process p that reads the license passes the handler's checks
RegisterPasses(p) == pc[p] = "idle" /\ pc'[p] = "reg_findClient"

\* the step is a registration that ends at its checks: no process moves on and
\* a registration is answered
RegisterRejected ==
    pc' = pc /\ resp' # resp /\ resp'.op = "register"

\* C5 as stated: a registration against a License that is not ACTIVE, or is
\* used, or has expiresAt <= now fails, creates no Client and leaves the License
\* unchanged.
C5_Original ==
    [][/\ \A p \in Procs :
            RegisterPasses(p) =>
              LET l == licenses[loc'[p].lid] IN
              l.status = "ACTIVE" /\ ~l.used /\ ~(l.expiresAt <= now)
       /\ RegisterRejected =>
              resp'.status # 201 /\ clients' = clients /\ licenses' = licenses]_vars

\* C5 as amended: a registration against a License that is not ACTIVE, or is
\* used, or has expiresAt < now fails, creates no Client and leaves the License
\* unchanged.
C5_BadLicenseRejected ==
    [][/\ \A p \in Procs :
            RegisterPasses(p) =>
              LET l == licenses[loc'[p].lid] IN
              l.status = "ACTIVE" /\ ~l.used /\ ~(l.expiresAt < now)
       /\ RegisterRejected =>
              resp'.status # 201 /\ clients' = clients /\ licenses' = licenses]_vars

\* a registration was rejected because the license had expired
C5_Witness ==
    /\ resp = Response("register", NoId, 400, "noActiveSubs")
    /\ \E l \in Ids(licenses) :
          licenses[l].status = "ACTIVE" /\ ~licenses[l].used /\ licenses[l].expiresAt < now


\* C2: every User with plan 'free' has limits (2, 0, 30) and every User with
\* plan 'premium' has limits (-1, -1, -1).
C2_LimitsFollowPlan ==
    \A u \in Ids(users) :
        /\ users[u].plan = "free" =>
              /\ users[u].maxApps = 2
              /\ users[u].maxResellers = 0
              /\ users[u].maxLicensesPerApp = 30
        /\ users[u].plan = "premium" =>
              /\ users[u].maxApps = -1
              /\ users[u].maxResellers = -1
              /\ users[u].maxLicensesPerApp = -1

OwnedApps(u) == {a \in Ids(apps) : apps[a].owner = u}

\* the step of process p passes the quota check of POST /apps
AppCreatePasses(p) == pc[p] = "idle" /\ pc'[p] = "app_genId"

\* the step is a POST /apps that the quota check rejects
AppCreateRejected ==
    pc' = pc /\ resp' # resp /\ resp'.op = "appCreate" /\ resp'.status = 403

\* C10: with non-overlapping requests a free-plan User owns at most 2 apps;
\* POST /apps is rejected, creating nothing, exactly when the owner is on the free
\* plan and has 2 apps, so it succeeds once the owner is premium; and
\* cancel-subscription is refused while the owner has more than 2 apps.
C10_FreeOwnerAtMostTwoApps ==
    /\ [](\A u \in Ids(users) :
            users[u].plan = "free" =>
                Cardinality(OwnedApps(u)) <= 2 /\ Cardinality(users[u].apps) <= 2)
    /\ [][/\ \A p \in Procs :
               AppCreatePasses(p) =>
                  LET u == loc'[p].user IN
                  users[u].plan = "premium" \/ Cardinality(OwnedApps(u)) < 2
          /\ AppCreateRejected =>
                /\ users[resp'.who].plan = "free"
                /\ Cardinality(OwnedApps(resp'.who)) = 2
                /\ apps' = apps /\ users' = users
          /\ \A u \in Ids(users) :
               (users[u].plan = "premium" /\ users'[u].plan = "free") =>
                  Cardinality(OwnedApps(u)) <= 2]_vars

\* an upgraded owner has created a third app and the downgrade was refused
C10_Witness ==
    \E u \in Ids(users) :
        /\ users[u].plan = "premium"
        /\ Cardinality(OwnedApps(u)) = 3
        /\ resp = Response("cancel", u, 400, "delete apps before downgrading")

\* C4: in every reachable state no two distinct Licenses have the same key,
\* for generated and for custom keys, also when license creations overlap.
C4_KeysUnique ==
    \A i, j \in Ids(licenses) : i # j => licenses[i].key # licenses[j].key

\* two creations raced for one key: one License holds it and the other
\* creation's insert was refused by the index
C4_Witness ==
    /\ resp.status = 500
    /\ resp.op \in {"licenseCreate", "bulkCreate"}
    /\ licenses # <<>>
    /\ Quiet

\* C6: in every reachable state every Reseller with licenseLimit # -1 has
\* usedLicenses <= licenseLimit, after reseller license creations (also
\* overlapping ones), owner updates of the reseller and license deletions.
C6_UsedWithinLimit ==
    \A r \in Ids(resellers) :
        resellers[r].licenseLimit # Unlimited =>
            resellers[r].usedLicenses <= resellers[r].licenseLimit

\* the step of process p is a license-creation request of a reseller that
\* passes the handler's checks and goes on to License.create
ResellerCreationPasses(p) ==
    /\ pc[p] = "idle"
    /\ pc'[p] \in {"bulk_genKey", "lic_genKey", "lic_insert"}
    /\ loc'[p].reseller # NoId

\* C7: a license-creation request (POST /licenses or the bulk
\* POST /resellers/auth/licenses) made by a reseller whose allowedActions.create
\* is false is rejected and inserts no License.
C7_CreateNeedsPermission ==
    [][\A p \in Procs :
          ResellerCreationPasses(p) =>
              resellers[loc'[p].reseller].allowedActions.create]_vars

\* C9: DELETE /resellers/:id by the app owner fails and leaves the Reseller in
\* place whenever at least one License referencing it has status ACTIVE, and
\* removes the Reseller whenever none has, whatever number of REVOKED, EXPIRED
\* or BANNED licenses reference it.
C9_DeleteIffNoActiveLicense ==
    [][\A u \in Ids(users), r \in Ids(resellers) :
          (/\ ResellerDelete(u, r)
           /\ resellers[r].app \in Ids(apps)
           /\ apps[resellers[r].app].owner = u) =>
              IF \E l \in Ids(licenses) :
                    licenses[l].reseller = r /\ licenses[l].status = "ACTIVE"
              THEN resellers' = resellers /\ resp'.status = 400
              ELSE resellers' = Remove(resellers, {r}) /\ resp'.status = 200]_vars

\* a reseller was deleted although REVOKED, EXPIRED or BANNED licenses of
\* three kinds still reference it
C9_Witness ==
    /\ resp = Response("resellerDelete", 1, 200, "Reseller deleted successfully")
    /\ \E r \in 1..MaxResellers :
          /\ r \notin Ids(resellers)
          /\ {licenses[l].status : l \in {i \in Ids(licenses) : licenses[i].reseller = r}}
                = {"REVOKED", "EXPIRED", "BANNED"}

LicensesInApp(lics, a) == {l \in Ids(lics) : lics[l].app = a}

\* C8: a license creation by a reseller never brings the number of licenses in
\* an app above the owner's maxLicensesPerApp when that limit is not -1.
C8_ResellerWithinOwnerQuota ==
    [][\A l \in Ids(licenses') \ Ids(licenses) :
          LET a == licenses'[l].app
              limit == users[apps[a].owner].maxLicensesPerApp
          IN  (licenses'[l].createdByType = "reseller" /\ limit # Unlimited) =>
                  Cardinality(LicensesInApp(licenses', a)) <= limit]_vars

\* the messages of the two quota rejections of the bulk route
LimitMessages == {"License limit reached", "Cannot create that many licenses"}

\* C11: a well-formed bulk request of an active reseller for count licenses is
\* rejected with a limit message, creating nothing, when licenseLimit # -1 and
\* usedLicenses + count > licenseLimit; it passes when it fits (so also after
\* the owner has raised the limit), and the request that ends successfully has
\* created count licenses and leaves usedLicenses count higher than it found it.
C11_LimitRejectsThenFits ==
    [][/\ \A r \in Ids(resellers), c \in 1..MaxBulkCount :
            (BulkCheck(1, r, c, MaxTime) /\ resellers[r].active) =>
                IF /\ resellers[r].licenseLimit # Unlimited
                   /\ resellers[r].usedLicenses + c > resellers[r].licenseLimit
                THEN /\ resp'.status = 403 /\ resp'.msg \in LimitMessages
                     /\ pc' = pc /\ licenses' = licenses /\ resellers' = resellers
                ELSE pc'[1] = "bulk_genKey" /\ loc'[1].count = c
                        /\ loc'[1].used = resellers[r].usedLicenses
       /\ (pc[1] = "bulk_save" /\ pc'[1] = "idle") =>
             /\ resp'.status = 201
             /\ loc[1].made = loc[1].count
             /\ resellers'[loc[1].reseller].usedLicenses = loc[1].used + loc[1].count]_vars

\* the reseller's request was accepted after the owner had set a limit, and
\* filled the limit exactly
C11_Witness ==
    /\ resp = Response("bulkCreate", 1, 201, "Successfully created")
    /\ resellers[1].licenseLimit = MaxIssued
    /\ resellers[1].usedLicenses = MaxIssued
    /\ Cardinality(Ids(licenses)) = MaxIssued

\* C12: POST /licenses with an explicit key is rejected and creates no License
\* while the app's allowCustomLicenseKey is false; with the setting true it is
\* rejected when a License has that key and otherwise goes on to create the
\* License, which succeeds if no License has the key at the insert, and the
\* created License's key is the supplied value.
C12_CustomKeyFollowsSetting ==
    [][\A p \in Procs :
        /\ \A u \in Ids(users), k \in Keys :
              LicenseCreateCheck(p, u, 1, k, MaxTime) =>
                 IF ~apps[1].allowCustomLicenseKey \/ LicensesWithKey(k) # {}
                 THEN /\ pc' = pc /\ licenses' = licenses
                      /\ resp'.op = "licenseCreate" /\ resp'.status \in {400, 403}
                 ELSE apps[1].owner = u =>
                         /\ pc'[p] = "lic_insert"
                         /\ loc'[p].key = k /\ loc'[p].asked = k
        /\ (pc[p] = "lic_insert" /\ pc'[p] # "lic_insert" /\ loc[p].asked # NoKey) =>
              IF LicensesWithKey(loc[p].asked) = {}
              THEN /\ Ids(licenses') = Ids(licenses) \cup {nextId.license}
                   /\ licenses'[nextId.license].key = loc[p].asked
                   /\ loc[p].reseller = NoId => resp'.status = 201
              ELSE licenses' = licenses /\ resp'.status = 500]_vars

\* the owner has switched custom keys on and a request with an explicit key has
\* passed the checks while another License already exists
C12_Witness ==
    /\ apps[1].allowCustomLicenseKey
    /\ licenses # <<>>
    /\ \E p \in Procs : pc[p] = "lic_insert" /\ loc[p].asked # NoKey /\ loc[p].reseller = NoId

\* the checks of POST /clients/login that come before the HWID check all pass
\* for the login of client c of app a
LoginReachesHwidCheck(a, c, n, pw, h) ==
    /\ ValidClientLogin(n, pw, h)
    /\ a \in Ids(apps) /\ ~apps[a].paused
    /\ c \in Ids(clients) /\ clients[c].app = a /\ clients[c].username = n
    /\ clients[c].password = pw /\ ~clients[c].ban /\ ~(now > clients[c].expiresAt)

\* C13 as stated: when the app locks the hwid, a login with a hwid other than
\* the stored one is answered 403 hwidMismatch and changes nothing of the client
\* and a login with the stored hwid succeeds; when the app does not lock it,
\* the login succeeds whatever the hwid and the stored hwid is then the one sent.
C13_Original ==
    [][\A a \in Ids(apps), c \in Ids(clients), n \in {"bob", "eve"}, pw \in Passwords, h \in Hwids :
          ClientLogin(a, n, pw, h) /\ LoginReachesHwidCheck(a, c, n, pw, h)
          => IF apps[a].hwidLock
             THEN IF clients[c].hwid # h
                  THEN resp'.status = 403 /\ resp'.msg = "hwidMismatch" /\ clients' = clients
                  ELSE resp'.status = 200
             ELSE resp'.status = 200 /\ clients'[c].hwid = h]_vars

\* C13 amended: as above, but after a login to an app that does not lock the
\* hwid the stored hwid is the one sent with its surrounding whitespace removed.
C13_HwidCheckFollowsSetting ==
    [][\A a \in Ids(apps), c \in Ids(clients), n \in {"bob", "eve"}, pw \in Passwords, h \in Hwids :
          ClientLogin(a, n, pw, h) /\ LoginReachesHwidCheck(a, c, n, pw, h)
          => IF apps[a].hwidLock
             THEN IF clients[c].hwid # h
                  THEN resp'.status = 403 /\ resp'.msg = "hwidMismatch" /\ clients' = clients
                  ELSE resp'.status = 200
             ELSE resp'.status = 200 /\ clients'[c].hwid = Trim(h)]_vars

\* C13 witness: a login with a hwid other than the stored one has succeeded on
\* an app that does not lock the hwid, and the client now holds another hwid
\* than the one it registered with.
C13_Witness ==
    /\ resp.op = "login" /\ resp.status = 200
    /\ ~apps[1].hwidLock
    /\ 1 \in Ids(clients) /\ clients[1].hwid = Hw2 /\ clients[1].loginCount = 1

\* the login of username n with password pw at the app a must not succeed:
\* no such app, app paused, username unknown, password wrong, client banned,
\* or client expired (expiresAt before the current time)
LoginMustFail(a, n, pw) ==
    \/ a \notin Ids(apps)
    \/ apps[a].paused
    \/ ~\E c \in Ids(clients) : clients[c].app = a /\ clients[c].username = n
    \/ \E c \in Ids(clients) :
          /\ clients[c].app = a /\ clients[c].username = n
          /\ \/ clients[c].password # pw
             \/ clients[c].ban
             \/ clients[c].expiresAt < now

C14_RevokedIsTerminal ==
    [][\A l \in Ids(licenses) \cap Ids(licenses') :
          licenses[l].status = "REVOKED" => licenses'[l].status = "REVOKED"]_vars

VerifyIsGood(u, mockOrder, sigOK, gateway, orderUser) ==
    /\ sigOK
    /\ gateway = "captured"
    /\ orderUser = u
    /\ mockOrder => build.devMode

FirstRejection(n, k) ==
    LET lid == FindOne(LicensesWithKey(k)) IN
    IF lid = NoId THEN "Invalid license key"
    ELSE IF apps[licenses[lid].app].paused THEN "pausedApp"
    ELSE IF licenses[lid].used THEN "keyUsed"
    ELSE IF licenses[lid].status # "ACTIVE" THEN "keyBanned"
    ELSE IF licenses[lid].expiresAt < now THEN "noActiveSubs"
    ELSE IF Len(n) < MinUsernameLen THEN "unTooShort"
    ELSE "none"

C21_Original ==
    [][resp'.op = "webhook"
       => /\ ~build.webhookSecret => resp'.status = 200 /\ payments' = payments
          /\ build.webhookSecret /\ ~(resp'.status = 400 /\ payments' = payments)
             => \A b \in WebhookBodies : \A s \in WebhookSignatures(b) :
                   Webhook(b, s) => s = Hmac("configured", b)]_vars

\* C21 amended: as above, with the signature compared with the HMAC of the
\* parsed body serialised again by JSON.stringify.
C21_WebhookRejectsBadSignature ==
    [][resp'.op = "webhook"
       => /\ ~build.webhookSecret => resp'.status = 200 /\ payments' = payments
          /\ build.webhookSecret /\ ~(resp'.status = 400 /\ payments' = payments)
             => \A b \in WebhookBodies : \A s \in WebhookSignatures(b) :
                   Webhook(b, s) => s = Hmac("configured", Stringify(b))]_vars

\* C21 witness: with a secret configured, a webhook for a stored payment was
\* refused for its signature after an earlier one had marked the payment failed.
C21_Witness ==
    /\ build.webhookSecret
    /\ resp.op = "webhook" /\ resp.status = 400
    /\ \E i \in Ids(payments) : payments[i].status = "failed"

\* C22: a webhook that was processed leaves the Payments in a state that a
\* second delivery of the same event does not change; and a payment.captured
\* event for a Payment that is captured changes nothing.
C22_WebhookIdempotent ==
    [][resp'.op = "webhook" /\ payments' # payments
       => \A b \in WebhookBodies : \A s \in WebhookSignatures(b) :
             Webhook(b, s)
             => /\ HandledEvent(b)' = payments'
                /\ b.event = "payment.captured" =>
                      \A i \in PaymentsWithId(b.paymentId) : payments[i].status # "captured"]_vars

\* used and usedBy of every License stored before and after the step are the same
UseUnchanged ==
    \A l \in Ids(licenses) \cap Ids(licenses') :
        licenses'[l].used = licenses[l].used /\ licenses'[l].usedBy = licenses[l].usedBy

Toggled(status) ==
    IF status = "ACTIVE" THEN "BANNED"
    ELSE IF status = "BANNED" THEN "ACTIVE"
    ELSE status

\* C24: a toggle-ban that is answered with success turns ACTIVE into BANNED
\* and BANNED into ACTIVE and keeps REVOKED and EXPIRED; a second toggle-ban
\* applied to the result gives the status the license had at first.
C24_ToggleBanIsInvolution ==
    [][\A u \in Ids(users), l \in Ids(licenses) :
          LicenseToggleBan(u, l) /\ resp'.status = 200
          => /\ licenses'[l].status = Toggled(licenses[l].status)
             /\ toggleBan(licenses'[l]).status = licenses[l].status
             /\ licenses'[l] = [licenses[l] EXCEPT !.status = licenses'[l].status]]_vars

\* C24 witness: a toggle-ban on a REVOKED license was answered with success
\* and the license is still REVOKED.
C24_Witness ==
    /\ resp.op = "toggleBan" /\ resp.status = 200
    /\ \E l \in Ids(licenses) : licenses[l].status = "REVOKED"

\* C25: an owner's POST /licenses passes its checks only if the owner's
\* maxLicensesPerApp is -1 or the app holds fewer licenses than that; with one
\* request at a time, a creation by a free-plan owner never leaves more than
\* 30 licenses in the app.
C25_OwnerWithinQuota ==
    [][/\ \A u \in Ids(users) :
             LicenseCreateCheck(1, u, 1, NoKey, MaxTime) /\ apps[1].owner = u /\ pc'[1] # "idle"
             => \/ users[u].maxLicensesPerApp = -1
                \/ Cardinality(LicensesInApp(licenses, 1)) < users[u].maxLicensesPerApp
       /\ LicenseCreateInsert(1, QuotaCap) /\ users[apps[1].owner].plan = "free"
          => Cardinality(LicensesInApp(licenses', 1)) <= 30]_vars

\* C25 witness: a free-plan owner whose app holds 30 licenses asked for one
\* more and was refused.
C25_Witness ==
    /\ resp.op = "licenseCreate" /\ resp.status = 403 /\ resp.who = 1
    /\ users[1].plan = "free"
    /\ Cardinality(LicensesInApp(licenses, 1)) = 30

\* C26: the quota check and the insert are separate steps with no lock: a
\* creation that passed the check inserts its document, unless the unique index
\* refuses the key, whatever the count has become since; so a free-plan owner
\* with more than 2 apps and more than 30 licenses in one app is reachable
\* (C26_Witness).
C26_InsertIgnoresQuota ==
    [][\A p \in Procs :
          /\ pc[p] = "app_insert" /\ pc'[p] # "app_insert"
             /\ (\A a \in Ids(apps) : apps[a].appId # loc[p].appId)
             => /\ Ids(apps') = Ids(apps) \cup {nextId.app}
                /\ apps'[nextId.app].owner = loc[p].user
          /\ pc[p] = "lic_insert" /\ pc'[p] # "lic_insert"
             /\ LicensesWithKey(loc[p].key) = {}
             => /\ Ids(licenses') = Ids(licenses) \cup {nextId.license}
                /\ licenses'[nextId.license].app = loc[p].app]_vars

\* C26 witness: no request is in progress, the owner is on the free plan, has
\* three apps and one of them holds 31 licenses.
C26_Witness ==
    /\ Quiet
    /\ users[1].plan = "free"
    /\ Cardinality(PopulatedApps(1)) > FreeMaxApps
    /\ Cardinality(OwnedApps(1)) > FreeMaxApps
    /\ Cardinality(LicensesInApp(licenses, 1)) > FreeMaxLicensesPerApp
    /\ resp.status = 201

\* C27: when the unique index refuses the insert of a creation whose generated
\* key (or appId) was stored by an overlapping creation after the existence
\* query, the request draws a fresh key and goes on; no error is answered.
C27_DuplicateInsertRetried ==
    [][\A p \in Procs :
          /\ pc[p] = "lic_insert" /\ pc'[p] # "lic_insert"
             /\ LicensesWithKey(loc[p].key) # {}
             => pc'[p] = "lic_genKey" /\ resp' = resp
          /\ pc[p] = "app_insert" /\ pc'[p] # "app_insert"
             /\ (\E a \in Ids(apps) : apps[a].appId = loc[p].appId)
             => pc'[p] = "app_genId" /\ resp' = resp]_vars

\* C28: every login answered with success increases the stored loginCount of
\* the client by exactly one and sets lastLogin, also when logins of the same
\* client overlap; so loginCount equals the number of successful logins.
C28_LoginCounted ==
    [][\A p \in Procs :
          (pc[p] = "login_save" /\ pc'[p] = "idle" /\ resp'.status = 200)
          => LET c == loc[p].client IN
             /\ clients'[c].loginCount = clients[c].loginCount + 1
             /\ clients'[c].lastLogin = now]_vars

\* the app with these credentials exists and is not paused, and the named
\* client exists in it, is not banned and is not expired
SessionIsGood(username, appId, appSecret) ==
    \E a \in Ids(apps) :
        /\ apps[a].appId = appId /\ AppSecret(apps[a]) = appSecret
        /\ ~apps[a].paused
        /\ \E c \in Ids(clients) :
              /\ clients[c].app = a /\ clients[c].username = username
              /\ ~clients[c].ban
              /\ ~(now > clients[c].expiresAt)

C30_DeletedAppLeavesNothing ==
    /\ [](\A l \in Ids(licenses) : licenses[l].app \in Ids(apps))
    /\ [][\A u \in Ids(users), a \in 1..MaxApps :
             (AppDelete(u, a) /\ resp'.status = 200)
             => /\ a \notin users'[u].apps
                /\ Cardinality(PopulatedApps(u)') = Cardinality(PopulatedApps(u)) - 1]_vars

\* C31: an extension by d days sets expiresAt to the previous expiresAt plus d
\* days whatever the current time is (so that extending by a and then by b is
\* extending by a + b, and a client expired for more than d days stays
\* expired); PATCH /clients/:id/extend rejects days < 1 and leaves expiresAt
\* unchanged.
C31_ExtendAddsDays ==
    [][resp'.op = "clientExtend" /\ UNCHANGED <<pc, loc, now>> =>
          \A u \in Ids(users), c \in Ids(clients), d \in DaysSent :
             ClientExtend(u, c, d) =>
                IF resp'.status = 200
                THEN /\ d # Absent /\ d[1] >= Whole(1)
                     /\ Whole(clients'[c].expiresAt) = Whole(clients[c].expiresAt) + d[1]
                ELSE clients' = clients]_vars

\* C32: a request a reseller sends while its active flag is false is rejected
\* (login, profile, license listing, dashboard, license creation) and creates
\* no License, whenever its token was issued; canCreateLicense and
\* hasPermission are false for an inactive reseller, for every action.
C32_InactiveResellerRejected ==
    /\ [](\A r \in Ids(resellers) :
             ~resellers[r].active =>
                /\ ~ResellerCanCreateLicense(resellers[r])
                /\ \A action \in DOMAIN resellers[r].allowedActions :
                      ~hasPermission(resellers[r], action))
    /\ [][/\ \A r \in Ids(resellers), c \in 1..MaxCount :
                (BulkCheck(1, r, c, MaxTime) /\ ~resellers[r].active)
                => pc'[1] = "idle" /\ resp'.status = 404 /\ licenses' = licenses
          /\ resp'.op = "resellerLogin" /\ UNCHANGED <<pc, resellers>> =>
                \A e \in ResellerEmails, pw \in LoginPasswords :
                   (ResellerLogin(e, pw)
                    /\ \A r \in Ids(resellers) : resellers[r].email = e => ~resellers[r].active)
                   => resp'.status \in {400, 401}
          /\ resp'.op \in ResellerReadRoutes /\ UNCHANGED <<pc, resellers>> =>
                \A route \in ResellerReadRoutes, r \in Ids(resellers) :
                   (ResellerRead(route, r) /\ ~resellers[r].active) => resp'.status = 404]_vars

\* C32 witness: a reseller that created a license while active was then
\* deactivated and its next creation request was refused.
C32_Witness ==
    /\ resp = Response("bulkCreate", 1, 404, "Reseller account not found or inactive")
    /\ ~resellers[1].active
    /\ resellers[1].usedLicenses > 0
    /\ \E l \in Ids(licenses) : licenses[l].reseller = 1

\* C33: whenever no request is in progress (requests do not overlap), every
\* License whose key is the non-empty licenseKey of an existing Client is used
\* and usedBy that Client, so no two Clients hold the same license key; also
\* after a license was deleted and a license with the same custom key created.
C33_BindingOneToOne ==
    Quiet =>
       \A l \in Ids(licenses), c \in Ids(clients) :
          (clients[c].licenseKey # NoKey /\ clients[c].licenseKey = licenses[l].key)
          => licenses[l].used /\ licenses[l].usedBy = c

\* C34: whenever no request is in progress, every Reseller's usedLicenses is
\* the number of existing Licenses whose reseller is that reseller (and so is
\* never negative), after any reseller creations, overlapping bulk creations
\* included, and single and bulk license deletions.
C34_UsedLicensesCounts ==
    Quiet =>
       \A r \in Ids(resellers) :
          /\ resellers[r].usedLicenses >= 0
          /\ resellers[r].usedLicenses
                = Cardinality({l \in Ids(licenses) : licenses[l].reseller = r})

\* the step is a request on a license: toggle-ban, PUT or DELETE /licenses/:id
LicenseRequest ==
    /\ resp'.op \in {"toggleBan", "licenseUpdate", "licenseDelete"}
    /\ UNCHANGED <<pc, loc, now>>

\* C35: a Client's expiresAt is set at registration to the expiresAt of the
\* License it consumes; afterwards no request on that License changes the
\* Client (its ban or expiresAt), nor the outcome of the client's login and
\* validate-session, which depend on the Client's and the App's fields only.
C35_ClientKeepsOwnExpiry ==
    [][/\ (pc[1] = "reg_createClient" /\ pc'[1] = "reg_saveLicense")
          => /\ clients'[loc'[1].client].expiresAt = loc[1].license.expiresAt
             /\ ~clients'[loc'[1].client].ban
       /\ LicenseRequest
          => /\ clients' = clients
             /\ \A c \in Ids(clients), pw \in Passwords, h \in {Hw1, Hw2} :
                   LoginRejection(1, c, pw, h)' = LoginRejection(1, c, pw, h)
             /\ SessionRejection("bob", 1, AppSecret(apps[1]))'
                   = SessionRejection("bob", 1, AppSecret(apps[1]))]_vars

\* C35 witness: the client logged in although the license it consumed has
\* since been banned and given another expiry.
C35_Witness ==
    /\ resp.op = "login" /\ resp.status = 200
    /\ \E c \in Ids(clients), l \in Ids(licenses) :
          /\ licenses[l].key = clients[c].licenseKey /\ licenses[l].usedBy = c
          /\ licenses[l].status = "BANNED"
          /\ licenses[l].expiresAt # clients[c].expiresAt
          /\ ~clients[c].ban

\* C36: POST /payments/cancel-subscription succeeds only when the user's
\* resources fit the free plan: right after a successful downgrade the user has
\* at most 2 apps, each of them has at most 30 licenses, and none of them has a
\* reseller that can create licenses.
C36_DowngradeFitsFreePlan ==
    [][\A u \in Ids(users) :
          (CancelSubscription(u) /\ resp'.status = 200)
          => /\ Cardinality(OwnedApps(u)') <= FreeMaxApps
             /\ \A a \in OwnedApps(u)' :
                   /\ Cardinality(LicensesInApp(licenses', a)) <= FreeMaxLicensesPerApp
                   /\ \A r \in Ids(resellers') :
                         resellers'[r].app = a => ~ResellerCanCreateLicense(resellers'[r])]_vars

\* C37: once the owner has reset a client's HWID (the stored hwid is null), the
\* client's next login with correct credentials succeeds from any HWID while
\* the app's hwidLock is true, and the HWID sent becomes the stored one; the
\* same for a client created directly without an hwid.
C37_LoginAfterResetAdoptsHwid ==
    [][resp'.op = "login" /\ UNCHANGED <<pc, loc, now>> =>
          \A c \in Ids(clients), h \in Hwids :
             (/\ ClientLogin(clients[c].app, clients[c].username, clients[c].password, h)
              /\ clients[c].hwid = NullHwid
              /\ apps[clients[c].app].hwidLock /\ ~apps[clients[c].app].paused
              /\ ~clients[c].ban /\ ~isExpired(clients[c]))
             => resp'.status = 200 /\ clients'[c].hwid = Trim(h)]_vars

\* C38: POST /payments/:paymentId/refund appends a refund entry to a Payment
\* only when the requesting user is the Payment's user and the Payment's status
\* is captured; a request by another user leaves the Payment unchanged.
C38_RefundOnlyByPayer ==
    [][resp'.op = "refund" =>
          \A u \in Ids(users), pid \in 1..MaxPayments, ok \in BOOLEAN, r \in RefundIds :
             (PaymentRefund(u, pid, ok, r) /\ payments' # payments)
             => payments[pid].user = u /\ payments[pid].status = "captured"]_vars

\* C39: while the owner's plan is free, a reseller create or update request by
\* that owner never leaves a Reseller with a license limit above 30: the
\* resulting licenseLimit is between 0 and 30, never the unlimited -1.
C39_FreeOwnerLimitAtMost30 ==
    [][(/\ resp'.op \in {"resellerCreate", "resellerUpdate"}
        /\ resellers' # resellers
        /\ users[resp'.who].plan = "free")
       => \A r \in Ids(resellers') :
             (r \notin Ids(resellers) \/ resellers'[r] # resellers[r])
             => resellers'[r].licenseLimit \in 0..FreeResellerLicenseCap]_vars

====
